---- MODULE Spec2Model ----
(***************************************************************************)
(* Fetch ledger of team-flow (backend/src/services/dataService.ts) and the *)
(* HTTP handlers of backend/src/index.ts that read and write it.           *)
(*                                                                         *)
(* The data directory is a map from file names to file contents.  A file   *)
(* is absent, unparseable ("corrupt": JSON.parse throws) or holds one of   *)
(* the JSON shapes the service writes or reads.  Dates 'YYYY-MM-DD' are    *)
(* triples <<y, m, d>>, bucket keys 'YYYY-WW' / 'YYYY-MM' are pairs, and   *)
(* ISO timestamps are natural numbers read off a clock.                    *)
(***************************************************************************)
EXTENDS Integers, Sequences, FiniteSets, TLC

\* ------------------------------------------------------------------------
\* Bounds
\* ------------------------------------------------------------------------

\* Number of timestamped writes in one behaviour (the clock stops there).
MaxClock == 3

\* ------------------------------------------------------------------------
\* Configuration and inputs
\* ------------------------------------------------------------------------

\* config/organizations.json, in configured order.
Organizations == <<"macromill", "macromill-mint">>

OrgNames == {Organizations[i] : i \in 1..Len(Organizations)}

\* Members the upstream lists for each organization.
Members(org) ==
    IF org = "macromill" THEN <<"mm-kado", "test-user">> ELSE <<"mm-kado">>

\* The organization field of a record the upstream returns: it is not set.
Undefined == "undefined"

\* One MemberActivity the upstream builds for a member of org, with the
\* counts of one month; organization is left unset.  src is not a field of
\* the program: it marks the organization whose fetch produced the record.
MemberActivity(org, login) ==
    [login |-> login, organization |-> Undefined, src |-> org,
     activities |-> (<<2024, 1>> :> [issues |-> 1, pullRequests |-> 0,
                                     commits |-> 2, reviews |-> 0])]

\* Answers of githubService.getAllMemberActivities(org, range): one record
\* per member; the first organization may also come back without members.
UpstreamResults(org) ==
    {[i \in 1..Len(Members(org)) |-> MemberActivity(org, Members(org)[i])]} \cup
    (IF org = Organizations[1] THEN {<< >>} ELSE {})

\* (weekStart, weekEnd) pairs a client sends.  The first and the third lie
\* in the same 'YYYY-WW' key.
WeekRanges ==
    { << <<2024, 1, 1>>,   <<2024, 1, 7>> >>,
      << <<2024, 1, 8>>,   <<2024, 1, 14>> >>,
      << <<2024, 12, 30>>, <<2025, 1, 5>> >> }

\* (monthStart, monthEnd) pairs a client sends.  The first two share a key.
MonthRanges ==
    { << <<2024, 1, 1>>,  <<2024, 1, 31>> >>,
      << <<2024, 1, 15>>, <<2024, 1, 31>> >>,
      << <<2024, 2, 1>>,  <<2024, 2, 29>> >> }

WeekStarts == {r[1] : r \in WeekRanges}
MonthStarts == {r[1] : r \in MonthRanges}

\* ------------------------------------------------------------------------
\* Dates (moment)
\* ------------------------------------------------------------------------

IsLeap(y) == (y % 4 = 0 /\ y % 100 # 0) \/ y % 400 = 0

DaysBeforeMonth(y, m) ==
    LET cum == <<0, 31, 59, 90, 120, 151, 181, 212, 243, 273, 304, 334>>
    IN cum[m] + (IF m > 2 /\ IsLeap(y) THEN 1 ELSE 0)

DayOfYear(date) == DaysBeforeMonth(date[1], date[2]) + date[3]

\* Days from 0001-01-01 (a Monday) to 1 January of year y.
DaysBeforeYear(y) ==
    365 * (y - 1) + ((y - 1) \div 4) - ((y - 1) \div 100) + ((y - 1) \div 400)

\* ISO weekday, Monday = 1 .. Sunday = 7.
IsoWeekday(date) ==
    ((DaysBeforeYear(date[1]) + DayOfYear(date) - 1) % 7) + 1

\* Number of ISO weeks of year y: 53 when 1 January is a Thursday, or a
\* Wednesday of a leap year.
IsoWeeksInYear(y) ==
    LET jan1 == IsoWeekday(<<y, 1, 1>>)
    IN IF jan1 = 4 \/ (jan1 = 3 /\ IsLeap(y)) THEN 53 ELSE 52

\* moment(date).isoWeek()
IsoWeek(date) ==
    LET w == (DayOfYear(date) - IsoWeekday(date) + 10) \div 7
    IN IF w < 1 THEN IsoWeeksInYear(date[1] - 1)
       ELSE IF w > IsoWeeksInYear(date[1]) THEN 1
       ELSE w

\* moment(date).format('YYYY-WW'): calendar year, ISO week number.
getWeekKey(date) == <<date[1], IsoWeek(date)>>

\* moment(date).format('YYYY-MM')
getMonthKey(date) == <<date[1], date[2]>>

\* a.localeCompare(b) <= 0 on zero-padded 'YYYY-MM-DD' strings.
DateLeq(a, b) ==
    \/ a[1] < b[1]
    \/ a[1] = b[1] /\ a[2] < b[2]
    \/ a[1] = b[1] /\ a[2] = b[2] /\ a[3] <= b[3]

WeekKeys == {getWeekKey(s) : s \in WeekStarts}
MonthKeys == {getMonthKey(s) : s \in MonthStarts}

\* ------------------------------------------------------------------------
\* Files of the data directory
\* ------------------------------------------------------------------------

\* <org>-weekly-activities.json
getWeeklyDataFile(orgName) == <<orgName, "weekly-activities">>

\* <org>-monthly-<key>.json, or <org>-monthly-activities.json without key.
getMonthlyDataFile(orgName, monthKey) == <<orgName, "monthly", monthKey>>

getMonthlyDataFileOld(orgName) == <<orgName, "monthly-activities">>

\* <org>-activities.json
getOrganizationDataFile(orgName) == <<orgName, "activities">>

AllOrganizations == "all-organizations"

FileNames ==
    {getWeeklyDataFile(o) : o \in OrgNames} \cup
    {getMonthlyDataFile(o, k) : o \in OrgNames, k \in MonthKeys} \cup
    {getMonthlyDataFileOld(o) : o \in OrgNames} \cup
    {getOrganizationDataFile(o) : o \in OrgNames \cup {AllOrganizations}}

Absent == [kind |-> "absent"]
Corrupt == [kind |-> "corrupt"]

\* fs.existsSync(filePath)
existsSync(dir, f) == dir[f].kind # "absent"

\* JSON.parse(fs.readFileSync(filePath)) throws on an unparseable blob.
ParseThrows(dir, f) == dir[f].kind = "corrupt"

\* fs.writeFileSync(filePath, JSON.stringify(data)): the blob is replaced.
writeFileSync(dir, f, data) == [dir EXCEPT ![f] = data]

\* fs.unlinkSync(filePath)
unlinkSync(dir, f) == [dir EXCEPT ![f] = Absent]

\* A function without key k.
Without(fn, k) == [x \in DOMAIN fn \ {k} |-> fn[x]]

\* A function with fn[k] set to v, k being added when new.
With(fn, k, v) == [x \in DOMAIN fn \cup {k} |-> IF x = k THEN v ELSE fn[x]]

EmptyMap == [x \in {} |-> 0]

\* The elements of a sequence.
Range(seq) == {seq[i] : i \in 1..Len(seq)}

\* Result of a load that found nothing (null) or found a record list.
Null == [isNull |-> TRUE, activities |-> << >>]
Found(activities) == [isNull |-> FALSE, activities |-> activities]

\* The elements of a finite set of bucket entries as a sequence ascending
\* by start date (Array.prototype.sort with localeCompare on the start);
\* entries with equal start keep directory order, which is key order.
EntryBefore(a, b) ==
    \/ ~DateLeq(b.start, a.start)
    \/ /\ a.start = b.start
       /\ \/ a.key[1] < b.key[1]
          \/ a.key[1] = b.key[1] /\ a.key[2] <= b.key[2]

RECURSIVE SortByStart(_)
SortByStart(S) ==
    IF S = {} THEN << >>
    ELSE LET first == CHOOSE a \in S : \A b \in S : EntryBefore(a, b)
         IN <<first>> \o SortByStart(S \ {first})

\* ------------------------------------------------------------------------
\* Week ledger (dataService.ts 47-224)
\* ------------------------------------------------------------------------

WeekData(weekStart, weekEnd, now, activities) ==
    [weekStart |-> weekStart, weekEnd |-> weekEnd,
     lastUpdated |-> now, activities |-> activities]

\* saveWeeklyActivities with the store's bucket replaced by the merge of the
\* old and the new payload (kept for comparison with saveWeeklyActivities).
saveWeeklyActivitiesAppend(dir, orgName, weekStart, weekEnd, activities, now, ioFails) ==
    LET weekKey == getWeekKey(weekStart)
        filePath == getWeeklyDataFile(orgName)
        weeks == IF existsSync(dir, filePath) /\ ~ParseThrows(dir, filePath)
                 THEN dir[filePath].weeks ELSE EmptyMap
        old == IF weekKey \in DOMAIN weeks THEN weeks[weekKey].activities ELSE << >>
    IN [threw |-> FALSE,
        dir |-> writeFileSync(dir, filePath,
                  [kind |-> "weekly", organization |-> orgName,
                   weeks |-> With(weeks, weekKey,
                                  WeekData(weekStart, weekEnd, now, old \o activities)),
                   lastUpdated |-> now])]

\* saveWeeklyActivities: read-modify-write of the organization's week file.
\* It rethrows when the existing file does not parse or the write fails;
\* nothing is written then.
saveWeeklyActivities(dir, orgName, weekStart, weekEnd, activities, now, ioFails) ==
    LET weekKey == getWeekKey(weekStart)
        filePath == getWeeklyDataFile(orgName)
    IN IF existsSync(dir, filePath) /\ ParseThrows(dir, filePath)
       THEN [threw |-> TRUE, dir |-> dir]
       ELSE LET weeklyData ==
                    IF existsSync(dir, filePath) THEN dir[filePath]
                    ELSE [kind |-> "weekly", organization |-> orgName,
                          weeks |-> EmptyMap, lastUpdated |-> now]
                updated ==
                    [weeklyData EXCEPT
                       !.weeks = With(weeklyData.weeks, weekKey,
                                      WeekData(weekStart, weekEnd, now, activities)),
                       !.lastUpdated = now]
            IN IF ioFails THEN [threw |-> TRUE, dir |-> dir]
               ELSE [threw |-> FALSE, dir |-> writeFileSync(dir, filePath, updated)]

\* loadWeeklyActivities: the payload of the bucket, null when the file is
\* missing, unparseable or has no such week.
loadWeeklyActivities(dir, orgName, weekStart) ==
    LET weekKey == getWeekKey(weekStart)
        filePath == getWeeklyDataFile(orgName)
    IN IF ~existsSync(dir, filePath) THEN Null
       ELSE IF ParseThrows(dir, filePath) THEN Null
       ELSE IF weekKey \in DOMAIN dir[filePath].weeks
            THEN Found(dir[filePath].weeks[weekKey].activities)
            ELSE Null

\* getFetchedWeeks: one entry per stored week, ascending by weekStart.
getFetchedWeeks(dir, orgName) ==
    LET filePath == getWeeklyDataFile(orgName)
    IN IF ~existsSync(dir, filePath) THEN << >>
       ELSE IF ParseThrows(dir, filePath) THEN << >>
       ELSE LET weeks == dir[filePath].weeks
                entries == {[key |-> k, start |-> weeks[k].weekStart,
                             end |-> weeks[k].weekEnd,
                             lastUpdated |-> weeks[k].lastUpdated] : k \in DOMAIN weeks}
            IN SortByStart(entries)

\* isWeekFetched: the file exists, parses and holds the week key.
isWeekFetched(dir, orgName, weekStart) ==
    LET weekKey == getWeekKey(weekStart)
        filePath == getWeeklyDataFile(orgName)
    IN IF ~existsSync(dir, filePath) THEN FALSE
       ELSE IF ParseThrows(dir, filePath) THEN FALSE
       ELSE weekKey \in DOMAIN dir[filePath].weeks

\* deleteWeeklyActivities: removes the week from the file and rewrites it;
\* false when the file or the week is missing or anything throws.
deleteWeeklyActivities(dir, orgName, weekStart, now, ioFails) ==
    LET weekKey == getWeekKey(weekStart)
        filePath == getWeeklyDataFile(orgName)
    IN IF ~existsSync(dir, filePath) THEN [deleted |-> FALSE, dir |-> dir]
       ELSE IF ParseThrows(dir, filePath) THEN [deleted |-> FALSE, dir |-> dir]
       ELSE IF weekKey \in DOMAIN dir[filePath].weeks
            THEN IF ioFails THEN [deleted |-> FALSE, dir |-> dir]
                 ELSE [deleted |-> TRUE,
                       dir |-> writeFileSync(dir, filePath,
                                 [dir[filePath] EXCEPT
                                    !.weeks = Without(dir[filePath].weeks, weekKey),
                                    !.lastUpdated = now])]
            ELSE [deleted |-> FALSE, dir |-> dir]

\* ------------------------------------------------------------------------
\* Month ledger (dataService.ts 226-484)
\* ------------------------------------------------------------------------

MonthData(monthKey, monthStart, monthEnd, now, activities) ==
    [monthKey |-> monthKey, monthStart |-> monthStart, monthEnd |-> monthEnd,
     lastUpdated |-> now, activities |-> activities]

\* The blob saveMonthlyActivities writes: one bucket per file.
MonthFile(orgName, monthKey, monthStart, monthEnd, now, activities) ==
    [kind |-> "month", organization |-> orgName, monthKey |-> monthKey,
     monthStart |-> monthStart, monthEnd |-> monthEnd,
     lastUpdated |-> now, activities |-> activities]

\* The legacy blob: a map of buckets under "months".
MonthsFile(orgName, months, now) ==
    [kind |-> "months", organization |-> orgName, months |-> months,
     lastUpdated |-> now]

\* saveMonthlyActivities whose failing write leaves a torn file behind.
saveMonthlyActivitiesTornWrite(dir, orgName, monthStart, monthEnd, activities, now, ioFails) ==
    LET monthKey == getMonthKey(monthStart)
        filePath == getMonthlyDataFile(orgName, monthKey)
    IN IF ioFails THEN [threw |-> TRUE, dir |-> writeFileSync(dir, filePath, Corrupt)]
       ELSE [threw |-> FALSE,
             dir |-> writeFileSync(dir, filePath,
                       MonthFile(orgName, monthKey, monthStart, monthEnd,
                                 now, activities))]

\* saveMonthlyActivities: writes the bucket to its own file, replacing
\* whatever the file held; rethrows when the write fails.
saveMonthlyActivities(dir, orgName, monthStart, monthEnd, activities, now, ioFails) ==
    LET monthKey == getMonthKey(monthStart)
        filePath == getMonthlyDataFile(orgName, monthKey)
    IN IF ioFails THEN [threw |-> TRUE, dir |-> dir]
       ELSE [threw |-> FALSE,
             dir |-> writeFileSync(dir, filePath,
                       MonthFile(orgName, monthKey, monthStart, monthEnd,
                                 now, activities))]

\* loadMonthlyActivities: the bucket's own file first (bucket layout, then
\* map layout inside it), then the legacy <org>-monthly-activities.json.
loadMonthlyActivities(dir, orgName, monthStart) ==
    LET monthKey == getMonthKey(monthStart)
        newFilePath == getMonthlyDataFile(orgName, monthKey)
        oldFilePath == getMonthlyDataFileOld(orgName)
        fromOld ==
            IF ~existsSync(dir, oldFilePath) THEN Null
            ELSE IF ParseThrows(dir, oldFilePath) THEN Null
            ELSE IF monthKey \in DOMAIN dir[oldFilePath].months
                 THEN Found(dir[oldFilePath].months[monthKey].activities)
                 ELSE Null
    IN IF ~existsSync(dir, newFilePath) THEN fromOld
       ELSE IF ParseThrows(dir, newFilePath) THEN Null
       ELSE IF dir[newFilePath].kind = "month"
            THEN Found(dir[newFilePath].activities)
       ELSE IF monthKey \in DOMAIN dir[newFilePath].months
            THEN Found(dir[newFilePath].months[monthKey].activities)
       ELSE fromOld

\* The buckets one <org>-monthly-<key>.json contributes to the listing.
MonthFileEntries(dir, f) ==
    IF ParseThrows(dir, f) THEN {}
    ELSE IF dir[f].kind = "month"
         THEN {[key |-> dir[f].monthKey, start |-> dir[f].monthStart,
                end |-> dir[f].monthEnd, lastUpdated |-> dir[f].lastUpdated]}
         ELSE {[key |-> k, start |-> dir[f].months[k].monthStart,
                end |-> dir[f].months[k].monthEnd,
                lastUpdated |-> dir[f].months[k].lastUpdated] :
                  k \in DOMAIN dir[f].months}

\* getFetchedMonths: scans the directory for <org>-monthly-*.json except
\* <org>-monthly-activities.json, skips files that do not parse, and sorts
\* the entries by monthStart.
getFetchedMonths(dir, orgName) ==
    LET monthFiles == {f \in {getMonthlyDataFile(orgName, k) : k \in MonthKeys} :
                          existsSync(dir, f)}
    IN SortByStart(UNION {MonthFileEntries(dir, f) : f \in monthFiles})

\* isMonthFetched: the bucket's file exists.
isMonthFetched(dir, orgName, monthStart) ==
    existsSync(dir, getMonthlyDataFile(orgName, getMonthKey(monthStart)))

\* deleteMonthlyActivities that reports the file gone without unlinking it.
deleteMonthlyActivitiesKeepsFile(dir, orgName, monthStart, ioFails) ==
    LET filePath == getMonthlyDataFile(orgName, getMonthKey(monthStart))
    IN [deleted |-> existsSync(dir, filePath), dir |-> dir]

\* deleteMonthlyActivities: unlinks the bucket's file; false when there is
\* none or the unlink throws.
deleteMonthlyActivities(dir, orgName, monthStart, ioFails) ==
    LET filePath == getMonthlyDataFile(orgName, getMonthKey(monthStart))
    IN IF existsSync(dir, filePath)
       THEN IF ioFails THEN [deleted |-> FALSE, dir |-> dir]
            ELSE [deleted |-> TRUE, dir |-> unlinkSync(dir, filePath)]
       ELSE [deleted |-> FALSE, dir |-> dir]

\* ------------------------------------------------------------------------
\* Flat per-organization snapshot (dataService.ts 486-551)
\* ------------------------------------------------------------------------

\* saveOrganizationActivities: replaces the organization's snapshot.
saveOrganizationActivities(dir, orgName, activities, now, ioFails) ==
    IF ioFails THEN [threw |-> TRUE, dir |-> dir]
    ELSE [threw |-> FALSE,
          dir |-> writeFileSync(dir, getOrganizationDataFile(orgName),
                    [kind |-> "org", organization |-> orgName,
                     lastUpdated |-> now, activities |-> activities])]

\* loadOrganizationActivities: the snapshot's records, each attributed to
\* the organization the file names; null when missing or unparseable.
loadOrganizationActivities(dir, orgName) ==
    LET filePath == getOrganizationDataFile(orgName)
    IN IF ~existsSync(dir, filePath) THEN Null
       ELSE IF ParseThrows(dir, filePath) THEN Null
       ELSE LET data == dir[filePath]
            IN Found([i \in 1..Len(data.activities) |->
                        [data.activities[i] EXCEPT
                           !.organization = data.organization]])

\* getOrganizationLastUpdated: {} stands for null.
getOrganizationLastUpdated(dir, orgName) ==
    LET filePath == getOrganizationDataFile(orgName)
    IN IF ~existsSync(dir, filePath) THEN {}
       ELSE IF ParseThrows(dir, filePath) THEN {}
       ELSE {dir[filePath].lastUpdated}

\* ------------------------------------------------------------------------
\* Load-all operations (dataService.ts 188-224, 419-484, 554-623)
\* ------------------------------------------------------------------------

\* allActivities.push(...a) for each list of a sequence of lists, in order.
RECURSIVE Flatten(_)
Flatten(lists) ==
    IF lists = << >> THEN << >>
    ELSE Head(lists) \o Flatten(Tail(lists))

\* totalCount += a.length for each list of a sequence of lists.
RECURSIVE SumLengths(_)
SumLengths(lists) ==
    IF lists = << >> THEN 0
    ELSE Len(Head(lists)) + SumLengths(Tail(lists))

\* The latest lastUpdated of a set of timestamps, {} (null) when empty.
Latest(times) == {t \in times : \A u \in times : u <= t}

\* The sub-sequence of the elements of seq that satisfy keep[i].
RECURSIVE SelectIdx(_, _, _)
SelectIdx(seq, keep, i) ==
    IF i > Len(seq) THEN << >>
    ELSE (IF keep[i] THEN <<seq[i]>> ELSE << >>) \o SelectIdx(seq, keep, i + 1)

\* One organization's turn of the loop of loadAllOrganizationsWeeklyActivities.
WeeklyOrgStats(dir, orgName) ==
    LET fetchedWeeks == getFetchedWeeks(dir, orgName)
        loaded == [i \in 1..Len(fetchedWeeks) |->
                     loadWeeklyActivities(dir, orgName, fetchedWeeks[i].start)]
        used == SelectIdx([i \in 1..Len(fetchedWeeks) |-> loaded[i].activities],
                          [i \in 1..Len(fetchedWeeks) |-> ~loaded[i].isNull], 1)
    IN [activities |-> Flatten(used),
        count |-> SumLengths(used),
        lastUpdated |-> Latest({fetchedWeeks[i].lastUpdated :
                                  i \in {j \in 1..Len(fetchedWeeks) : ~loaded[j].isNull}}),
        fetched |-> [i \in 1..Len(fetchedWeeks) |-> fetchedWeeks[i].key]]

\* loadAllOrganizationsWeeklyActivities that reports only the organizations
\* that have a stored week.
loadAllOrganizationsWeeklyActivitiesSkipEmpty(dir) ==
    LET part == [i \in 1..Len(Organizations) |-> WeeklyOrgStats(dir, Organizations[i])]
    IN [activities |-> Flatten([i \in 1..Len(Organizations) |-> part[i].activities]),
        organizations |->
            [o \in {x \in OrgNames : getFetchedWeeks(dir, x) # << >>} |->
                LET i == CHOOSE j \in 1..Len(Organizations) : Organizations[j] = o
                IN [count |-> part[i].count, lastUpdated |-> part[i].lastUpdated,
                    fetched |-> part[i].fetched]]]

\* loadAllOrganizationsWeeklyActivities: every stored week of every
\* configured organization, in configured order.
loadAllOrganizationsWeeklyActivities(dir) ==
    LET part == [i \in 1..Len(Organizations) |-> WeeklyOrgStats(dir, Organizations[i])]
    IN [activities |-> Flatten([i \in 1..Len(Organizations) |-> part[i].activities]),
        organizations |->
            [o \in OrgNames |->
                LET i == CHOOSE j \in 1..Len(Organizations) : Organizations[j] = o
                IN [count |-> part[i].count, lastUpdated |-> part[i].lastUpdated,
                    fetched |-> part[i].fetched]]]

\* moment(d).isBetween(start, end, 'month', '[]') on month keys.
MonthIndex(key) == key[1] * 12 + key[2]

isBetweenMonths(monthStart, startMonth, endMonth) ==
    /\ MonthIndex(startMonth) <= MonthIndex(getMonthKey(monthStart))
    /\ MonthIndex(getMonthKey(monthStart)) <= MonthIndex(endMonth)

\* One organization's turn of the loop of loadAllOrganizationsMonthlyActivities.
MonthlyOrgStats(dir, orgName, startMonth, endMonth) ==
    LET fetchedMonths == getFetchedMonths(dir, orgName)
        idx == 1..Len(fetchedMonths)
        inRange == [i \in idx |->
                      isBetweenMonths(fetchedMonths[i].start, startMonth, endMonth)]
        loaded == [i \in idx |->
                     loadMonthlyActivities(dir, orgName, fetchedMonths[i].start)]
        keep == [i \in idx |-> inRange[i] /\ ~loaded[i].isNull]
        used == SelectIdx([i \in idx |-> loaded[i].activities], keep, 1)
    IN [activities |-> Flatten(used),
        count |-> SumLengths(used),
        lastUpdated |-> Latest({fetchedMonths[i].lastUpdated : i \in {j \in idx : keep[j]}}),
        fetched |-> SelectIdx([i \in idx |-> fetchedMonths[i].key], keep, 1)]

\* loadAllOrganizationsMonthlyActivities(startMonth, endMonth).
loadAllOrganizationsMonthlyActivities(dir, startMonth, endMonth) ==
    LET part == [i \in 1..Len(Organizations) |->
                   MonthlyOrgStats(dir, Organizations[i], startMonth, endMonth)]
    IN [activities |-> Flatten([i \in 1..Len(Organizations) |-> part[i].activities]),
        organizations |->
            [o \in OrgNames |->
                LET i == CHOOSE j \in 1..Len(Organizations) : Organizations[j] = o
                IN [count |-> part[i].count, lastUpdated |-> part[i].lastUpdated,
                    fetched |-> part[i].fetched]]]

\* The number of records of a list attributed to an organization.
CountOf(activities, orgName) ==
    Cardinality({i \in 1..Len(activities) : activities[i].organization = orgName})

\* loadAllOrganizationsActivities: the flat snapshots of the configured
\* organizations; when they yield no record at all, the records of
\* all-organizations-activities.json.
loadAllOrganizationsActivities(dir) ==
    LET loaded == [i \in 1..Len(Organizations) |->
                     loadOrganizationActivities(dir, Organizations[i])]
        allActivities == Flatten([i \in 1..Len(Organizations) |-> loaded[i].activities])
        orgStats ==
            [o \in OrgNames |->
                LET i == CHOOSE j \in 1..Len(Organizations) : Organizations[j] = o
                IN IF ~loaded[i].isNull
                   THEN [count |-> Len(loaded[i].activities),
                         lastUpdated |-> getOrganizationLastUpdated(dir, o)]
                   ELSE [count |-> 0, lastUpdated |-> {}]]
        allOrgsFilePath == getOrganizationDataFile(AllOrganizations)
    IN IF Len(allActivities) > 0
       THEN [activities |-> allActivities, organizations |-> orgStats]
       ELSE IF existsSync(dir, allOrgsFilePath) /\ ~ParseThrows(dir, allOrgsFilePath)
            THEN LET allOrgsData == dir[allOrgsFilePath]
                 IN [activities |-> allOrgsData.activities,
                     organizations |->
                        [o \in OrgNames |->
                            [count |-> CountOf(allOrgsData.activities, o),
                             lastUpdated |-> {allOrgsData.lastUpdated}]]]
            ELSE [activities |-> allActivities, organizations |-> orgStats]

\* ------------------------------------------------------------------------
\* HTTP handlers (index.ts)
\* ------------------------------------------------------------------------

\* A missing body field ('' is falsy).
Missing == ""

\* The answer of the upstream fetch: it throws, or returns the records.
UpstreamThrows == [threw |-> TRUE, activities |-> << >>]
UpstreamReturns(activities) == [threw |-> FALSE, activities |-> activities]

UpstreamAnswers(org) ==
    {UpstreamThrows} \cup {UpstreamReturns(a) : a \in UpstreamResults(org)}

\* Status of a request that passed the checks and awaits the upstream.
Awaiting == "awaiting"

\* POST /api/fetch-weekly-data up to the await, with the existence check
\* left out.
fetchWeeklyDataBeginNoCheck(dir, orgName, weekStart, weekEnd, forceUpdate) ==
    [status |-> Awaiting, callsUpstream |-> TRUE,
     start |-> weekStart, end |-> weekEnd, alreadyFetched |-> FALSE]

\* POST /api/fetch-weekly-data up to the await (index.ts 339-362): 400 on a
\* missing field, 409 when the week is stored and forceUpdate is false,
\* otherwise the upstream fetch is started.
fetchWeeklyDataBegin(dir, orgName, weekStart, weekEnd, forceUpdate) ==
    IF orgName = Missing
    THEN [status |-> "400", callsUpstream |-> FALSE,
          start |-> weekStart, end |-> weekEnd, alreadyFetched |-> FALSE]
    ELSE IF isWeekFetched(dir, orgName, weekStart) /\ ~forceUpdate
    THEN [status |-> "409", callsUpstream |-> FALSE,
          start |-> weekStart, end |-> weekEnd, alreadyFetched |-> TRUE]
    ELSE [status |-> Awaiting, callsUpstream |-> TRUE,
          start |-> weekStart, end |-> weekEnd, alreadyFetched |-> FALSE]

\* POST /api/fetch-weekly-data after the await (index.ts 362-377): the
\* records are saved and 200 is sent; a throw of the upstream or of the
\* save ends in 500.
fetchWeeklyDataEnd(dir, req, answer, now, ioFails) ==
    IF answer.threw THEN [status |-> "500", dir |-> dir]
    ELSE LET saved == saveWeeklyActivities(dir, req.org, req.start, req.end,
                                           answer.activities, now, ioFails)
         IN IF saved.threw THEN [status |-> "500", dir |-> saved.dir]
            ELSE [status |-> "200", dir |-> saved.dir]

\* POST /api/fetch-monthly-data up to the await (index.ts 441-464).
fetchMonthlyDataBegin(dir, orgName, monthStart, monthEnd, forceUpdate) ==
    IF orgName = Missing
    THEN [status |-> "400", callsUpstream |-> FALSE,
          start |-> monthStart, end |-> monthEnd, alreadyFetched |-> FALSE]
    ELSE IF isMonthFetched(dir, orgName, monthStart) /\ ~forceUpdate
    THEN [status |-> "409", callsUpstream |-> FALSE,
          start |-> monthStart, end |-> monthEnd, alreadyFetched |-> TRUE]
    ELSE [status |-> Awaiting, callsUpstream |-> TRUE,
          start |-> monthStart, end |-> monthEnd, alreadyFetched |-> FALSE]

\* POST /api/fetch-monthly-data after the await (index.ts 464-479).
fetchMonthlyDataEnd(dir, req, answer, now, ioFails) ==
    IF answer.threw THEN [status |-> "500", dir |-> dir]
    ELSE LET saved == saveMonthlyActivities(dir, req.org, req.start, req.end,
                                            answer.activities, now, ioFails)
         IN IF saved.threw THEN [status |-> "500", dir |-> saved.dir]
            ELSE [status |-> "200", dir |-> saved.dir]

\* POST /api/fetch-weekly-data as one call: the response, the directory
\* it leaves and whether the upstream was called.
fetchWeeklyData(dir, req, answer, now, ioFails) ==
    LET b == fetchWeeklyDataBegin(dir, req.org, req.start, req.end, req.force)
        e == fetchWeeklyDataEnd(dir, req, answer, now, ioFails)
    IN IF b.callsUpstream
       THEN [status |-> e.status, dir |-> e.dir, calledUpstream |-> TRUE,
             start |-> req.start, end |-> req.end]
       ELSE [status |-> b.status, dir |-> dir, calledUpstream |-> FALSE,
             start |-> b.start, end |-> b.end]

\* POST /api/fetch-monthly-data as one call.
fetchMonthlyData(dir, req, answer, now, ioFails) ==
    LET b == fetchMonthlyDataBegin(dir, req.org, req.start, req.end, req.force)
        e == fetchMonthlyDataEnd(dir, req, answer, now, ioFails)
    IN IF b.callsUpstream
       THEN [status |-> e.status, dir |-> e.dir, calledUpstream |-> TRUE,
             start |-> req.start, end |-> req.end]
       ELSE [status |-> b.status, dir |-> dir, calledUpstream |-> FALSE,
             start |-> b.start, end |-> b.end]

\* POST /api/fetch-data after the await (index.ts 115-127).
fetchDataEnd(dir, req, answer, now, ioFails) ==
    IF answer.threw THEN [status |-> "500", dir |-> dir]
    ELSE LET saved == saveOrganizationActivities(dir, req.org, answer.activities,
                                                 now, ioFails)
         IN IF saved.threw THEN [status |-> "500", dir |-> saved.dir]
            ELSE [status |-> "200", dir |-> saved.dir]

\* POST /api/fetch-data as one call (index.ts 101-128): 400 on a missing
\* field.
fetchData(dir, req, answer, now, ioFails) ==
    IF req.org = Missing THEN [status |-> "400", dir |-> dir]
    ELSE fetchDataEnd(dir, req, answer, now, ioFails)

\* DELETE /api/weekly-data/:orgName/:weekStart (index.ts 381-404).
deleteWeeklyData(dir, orgName, weekStart, now, ioFails) ==
    LET r == deleteWeeklyActivities(dir, orgName, weekStart, now, ioFails)
    IN [status |-> IF r.deleted THEN "200" ELSE "404", dir |-> r.dir]

\* DELETE /api/monthly-data/:orgName/:monthStart (index.ts 483-506).
deleteMonthlyData(dir, orgName, monthStart, ioFails) ==
    LET r == deleteMonthlyActivities(dir, orgName, monthStart, ioFails)
    IN [status |-> IF r.deleted THEN "200" ELSE "404", dir |-> r.dir]

\* The records POST /api/fetch-mm-kado-all-orgs collects: the member's
\* record of every organization whose fetch returned it, tagged with that
\* organization, in configured order.
RECURSIVE CollectMember(_, _)
CollectMember(answers, i) ==
    IF i > Len(Organizations) THEN << >>
    ELSE (IF answers[i].threw THEN << >>
          ELSE [j \in 1..Len(answers[i].activities) |->
                  [answers[i].activities[j] EXCEPT !.organization = Organizations[i]]])
         \o CollectMember(answers, i + 1)

\* POST /api/fetch-mm-kado-all-orgs (index.ts 162-232): what was collected
\* is saved as the snapshot "all-organizations" when it is not empty.
fetchMmKadoAllOrgs(dir, answers, now, ioFails) ==
    LET allActivities == CollectMember(answers, 1)
    IN IF Len(allActivities) > 0
       THEN LET saved == saveOrganizationActivities(dir, AllOrganizations,
                                                    allActivities, now, ioFails)
            IN IF saved.threw THEN [status |-> "500", dir |-> saved.dir]
               ELSE [status |-> "200", dir |-> saved.dir]
       ELSE [status |-> "200", dir |-> dir]

\* Answers of getAllMemberActivities(org, range, 'mm-kado'): the member's
\* record alone, nothing when the member is unknown, or a throw.
MemberAnswers(org) ==
    {UpstreamThrows, UpstreamReturns(<< >>)} \cup
    {UpstreamReturns(<<MemberActivity(org, "mm-kado")>>)}

\* One entry of the report of POST /api/fetch-all-organizations
\* (index.ts 255-258, 263-267); error is "none" where the code sets none.
ResultEntry(count, success, error) ==
    [count |-> count, success |-> success, error |-> error]

\* The loop iteration with a failed fetch saved as an empty snapshot.
fetchAllOrganizationsIterationSavesEmpty(dir, orgName, answer, now, ioFails) ==
    LET saved == saveOrganizationActivities(dir, orgName, answer.activities,
                                            now, ioFails)
    IN IF answer.threw \/ saved.threw
       THEN [dir |-> saved.dir, entry |-> ResultEntry(0, FALSE, "upstream")]
       ELSE [dir |-> saved.dir,
             entry |-> ResultEntry(Len(answer.activities), TRUE, "none")]

\* One iteration of the loop of POST /api/fetch-all-organizations after its
\* await (index.ts 250-268): the snapshot is saved and counted, or the
\* throw of the upstream or of the save is caught and reported.
fetchAllOrganizationsIteration(dir, orgName, answer, now, ioFails) ==
    IF answer.threw
    THEN [dir |-> dir, entry |-> ResultEntry(0, FALSE, "upstream")]
    ELSE LET saved == saveOrganizationActivities(dir, orgName, answer.activities,
                                                 now, ioFails)
         IN IF saved.threw
            THEN [dir |-> saved.dir, entry |-> ResultEntry(0, FALSE, "write")]
            ELSE [dir |-> saved.dir,
                  entry |-> ResultEntry(Len(answer.activities), TRUE, "none")]

\* GET /api/activities (index.ts 62-76): the flat load-all result.
getActivities(dir) ==
    [status |-> "200", dir |-> dir, body |-> loadAllOrganizationsActivities(dir)]

\* GET /api/weekly-activities (index.ts 407-419).
getWeeklyActivities(dir) ==
    [status |-> "200", dir |-> dir, body |-> loadAllOrganizationsWeeklyActivities(dir)]

\* GET /api/monthly-activities?startMonth&endMonth (index.ts 509-540): 400
\* without both months (NoMonth is an absent query parameter).
NoMonth == <<0, 0>>

getMonthlyActivities(dir, startMonth, endMonth) ==
    IF startMonth = NoMonth \/ endMonth = NoMonth
    THEN [status |-> "400", dir |-> dir,
          body |-> [activities |-> << >>, organizations |-> EmptyMap]]
    ELSE [status |-> "200", dir |-> dir,
          body |-> loadAllOrganizationsMonthlyActivities(dir, startMonth, endMonth)]

\* ------------------------------------------------------------------------
\* NaturalLanguageQueryService (src/unnamed/part_003): text
\*
\* A text is a sequence of atoms, an atom being a run of characters that the
\* keywords of the service never split.  The keywords that are written in
\* Japanese in the source are spelled in Latin letters here:
\*   hikaku 比較   tai 対   bunseki 分析   keikou 傾向   pataan パターン
\*   goukei 合計   heikin 平均   shuukei 集計   jou,i 上位   mottomo 最も
\*   ooi 多い   kikan 期間   itsu いつ   zenin 全員   subete すべて
\*   zentai 全体   zensoshiki 全組織   subete,no,soshiki すべての組織
\*   kongetsu 今月   sengetsu 先月   kako 過去   shuukan 週間   senshuu 先週
\*   kagetsu ヶ月   ishuu イシュー   pururiku プルリク   komitto コミット
\*   rebyuu レビュー   saidai 最大   saishou 最小   sukunai 少ない
\*   ka,i 下位   ijou 以上   ika 以下   ko 個   ken 件   i,made 位まで
\*   nin 人   to と
\* ------------------------------------------------------------------------

\* String.prototype.includes: kw occurs in text as a contiguous run.
Includes(text, kw) ==
    \E i \in 1..(Len(text) - Len(kw) + 1) : SubSeq(text, i, i + Len(kw) - 1) = kw

\* Whether one of the keywords occurs in the text.
IncludesAny(text, kws) == \E kw \in kws : Includes(text, kw)

\* Character.toLowerCase for the atoms that have upper-case letters.
LowerAtom(a) ==
    CASE a = "VS" -> "vs"
      [] a = "Macromill" -> "macromill"
      [] a = "Issue" -> "issue"
      [] a = "Kado" -> "kado"
      [] OTHER -> a

\* String.prototype.toLowerCase
toLowerCase(text) == [i \in DOMAIN text |-> LowerAtom(text[i])]

\* String.prototype.replace('-', ' '): the first hyphen alone is replaced.
ReplaceFirstHyphen(text) ==
    IF \E i \in DOMAIN text : text[i] = "-"
    THEN LET first == CHOOSE i \in DOMAIN text :
                         /\ text[i] = "-"
                         /\ \A j \in 1..(i - 1) : text[j] # "-"
         IN [text EXCEPT ![first] = " "]
    ELSE text

\* The spelling of the strings that records carry as login.
Spell(login) ==
    CASE login = "mm-kado" -> <<"mm", "-", "kado">>
      [] login = "MM-Kado" -> <<"MM", "-", "Kado">>
      [] login = "test-user" -> <<"test", "-", "user">>
      [] login = "ghost" -> <<"ghost">>
      [] OTHER -> <<login>>

Digits == <<"0", "1", "2", "3", "4", "5", "6", "7", "8", "9">>

IsDigit(a) == \E d \in DOMAIN Digits : Digits[d] = a

DigitValue(a) == (CHOOSE d \in DOMAIN Digits : Digits[d] = a) - 1

\* Last position of the run of digits that starts at position i (\d+ is
\* greedy).
DigitRunEnd(text, i) ==
    CHOOSE j \in i..Len(text) :
        /\ \A k \in i..j : IsDigit(text[k])
        /\ j = Len(text) \/ ~IsDigit(text[j + 1])

\* parseInt of the digits text[i..j].
RECURSIVE parseInt(_, _, _)
parseInt(text, i, j) ==
    IF j < i THEN 0 ELSE parseInt(text, i, j - 1) * 10 + DigitValue(text[j])

\* A value that is undefined, or defined.
None == << >>
Some(v) == <<v>>

\* One alternative of a pattern: prefix(\d+)suffix.
Alternative(prefix, suffix) == [prefix |-> prefix, suffix |-> suffix]

\* Whether the alternative matches the text from position i.
MatchesAt(text, i, alt) ==
    LET d == i + Len(alt.prefix)
    IN /\ d <= Len(text)
       /\ SubSeq(text, i, d - 1) = alt.prefix
       /\ IsDigit(text[d])
       /\ LET e == DigitRunEnd(text, d)
          IN /\ e + Len(alt.suffix) <= Len(text)
             /\ SubSeq(text, e + 1, e + Len(alt.suffix)) = alt.suffix

\* String.prototype.match of a pattern of alternatives, and parseInt of the
\* group that took part: the leftmost match, and at one position the first
\* alternative that matches.
MatchNumber(text, alts) ==
    LET hits == {i \in 1..Len(text) :
                    \E a \in 1..Len(alts) : MatchesAt(text, i, alts[a])}
    IN IF hits = {} THEN None
       ELSE LET i == CHOOSE h \in hits : \A g \in hits : h <= g
                a == CHOOSE b \in 1..Len(alts) :
                        /\ MatchesAt(text, i, alts[b])
                        /\ \A c \in 1..(b - 1) : ~MatchesAt(text, i, alts[c])
                d == i + Len(alts[a].prefix)
            IN Some(parseInt(text, d, DigitRunEnd(text, d)))

\* ------------------------------------------------------------------------
\* NaturalLanguageQueryService: parseQuery (part_003 121-341)
\* ------------------------------------------------------------------------

\* Whether a record has the field (it is not undefined).
Has(record, field) == field \in DOMAIN record

\* The markers of the comparison intent (part_003 147, 192, 277).
ComparisonMarkers == {<<"hikaku">>, <<"vs">>, <<"tai">>}

\* detectIntent with the ranking markers tested first.
detectIntentRankingFirst(query) ==
    IF IncludesAny(query, {<<"jou", "i">>, <<"mottomo">>, <<"ooi">>}) THEN "ranking"
    ELSE IF IncludesAny(query, ComparisonMarkers) THEN "comparison"
    ELSE IF IncludesAny(query, {<<"bunseki">>, <<"keikou">>, <<"pataan">>}) THEN "analysis"
    ELSE IF IncludesAny(query, {<<"goukei">>, <<"heikin">>, <<"shuukei">>}) THEN "aggregation"
    ELSE IF IncludesAny(query, {<<"kikan">>, <<"itsu">>}) THEN "timeline"
    ELSE "data"

\* detectIntent (part_003 146-163)
detectIntent(query) ==
    IF IncludesAny(query, ComparisonMarkers) THEN "comparison"
    ELSE IF IncludesAny(query, {<<"bunseki">>, <<"keikou">>, <<"pataan">>}) THEN "analysis"
    ELSE IF IncludesAny(query, {<<"goukei">>, <<"heikin">>, <<"shuukei">>}) THEN "aggregation"
    ELSE IF IncludesAny(query, {<<"jou", "i">>, <<"mottomo">>, <<"ooi">>}) THEN "ranking"
    ELSE IF IncludesAny(query, {<<"kikan">>, <<"itsu">>}) THEN "timeline"
    ELSE "data"

\* this.activities.map(a => a.login) (part_003 169); undefined logins
\* are left out here, extractMembersThrows tells of them.
AllMembers(activities) ==
    [i \in 1..Len(activities) |->
        IF Has(activities[i], "login") THEN activities[i].login ELSE "undefined"]

\* extractMembers throws (member.toLowerCase of undefined, part_003 173)
\* when a record has no login.
extractMembersThrows(activities) ==
    \E i \in 1..Len(activities) : ~Has(activities[i], "login")

\* extractMembers (part_003 165-185)
extractMembers(query, activities) ==
    LET allMembers == AllMembers(activities)
        named == [i \in 1..Len(allMembers) |->
                    \/ Includes(query, toLowerCase(Spell(allMembers[i])))
                    \/ Includes(query, toLowerCase(ReplaceFirstHyphen(Spell(allMembers[i]))))]
    IN IF IncludesAny(query, {<<"zenin">>, <<"subete">>, <<"zentai">>})
       THEN allMembers
       ELSE SelectIdx(allMembers, named, 1)

MacromillMint == <<"macromill", "-", "min", "t">>

\* extractOrganizations (part_003 187-218)
extractOrganizations(query) ==
    LET mint == IF Includes(query, MacromillMint) \/ Includes(query, <<"min", "t">>)
                THEN <<"macromill-mint">> ELSE << >>
        organizations ==
            IF IncludesAny(query, ComparisonMarkers)
            THEN LET both == mint \o (IF Includes(query, <<"macromill">>)
                                      THEN <<"macromill">> ELSE << >>)
                 IN IF Len(both) = 0 THEN <<"macromill", "macromill-mint">> ELSE both
            ELSE mint \o (IF /\ Includes(query, <<"macromill">>)
                             /\ ~Includes(query, MacromillMint)
                          THEN <<"macromill">> ELSE << >>)
    IN IF IncludesAny(query, {<<"zensoshiki">>, <<"subete", "no", "soshiki">>})
       THEN <<"macromill", "macromill-mint">>
       ELSE organizations

DaysInMonth(y, m) ==
    IF m = 12 THEN 31 ELSE DaysBeforeMonth(y, m + 1) - DaysBeforeMonth(y, m)

\* moment.startOf('month'), moment.endOf('month')
startOfMonth(date) == <<date[1], date[2], 1>>
endOfMonth(date) == <<date[1], date[2], DaysInMonth(date[1], date[2])>>

\* moment.subtract(n, 'month'): the day is clamped to the month's length.
subtractMonths(date, n) ==
    LET idx == date[1] * 12 + (date[2] - 1) - n
        y == idx \div 12
        m == (idx % 12) + 1
    IN <<y, m, IF date[3] > DaysInMonth(y, m) THEN DaysInMonth(y, m) ELSE date[3]>>

\* moment.subtract(1, 'week')
subtractWeek(date) ==
    IF date[3] > 7 THEN <<date[1], date[2], date[3] - 7>>
    ELSE LET p == subtractMonths(<<date[1], date[2], 1>>, 1)
         IN <<p[1], p[2], DaysInMonth(p[1], p[2]) + date[3] - 7>>

DateRange(start, end) == [start |-> start, end |-> end]

\* extractDateRange (part_003 220-255).  now is one moment object that
\* startOf, endOf and subtract change in place, so each call works on what
\* the calls before it left.
extractDateRange(query, today) ==
    IF Includes(query, <<"kongetsu">>)
    THEN Some(DateRange(startOfMonth(today), endOfMonth(startOfMonth(today))))
    ELSE IF Includes(query, <<"sengetsu">>)
    THEN LET start == startOfMonth(subtractMonths(today, 1))
         IN Some(DateRange(start, endOfMonth(subtractMonths(start, 1))))
    ELSE IF Includes(query, <<"kako", "1", "shuukan">>) \/ Includes(query, <<"senshuu">>)
    THEN Some(DateRange(subtractWeek(today), subtractWeek(today)))
    ELSE IF Includes(query, <<"kako", "1", "kagetsu">>)
    THEN Some(DateRange(subtractMonths(today, 1), subtractMonths(today, 1)))
    ELSE IF Includes(query, <<"kako", "3", "kagetsu">>)
    THEN Some(DateRange(subtractMonths(today, 3), subtractMonths(today, 3)))
    ELSE None

\* extractActivityTypes (part_003 257-274)
extractActivityTypes(query) ==
    (IF Includes(query, <<"ishuu">>) \/ Includes(query, <<"issue">>)
     THEN <<"issues">> ELSE << >>)
    \o (IF \/ Includes(query, <<"pururiku">>) \/ Includes(query, <<"pr">>)
           \/ Includes(query, <<"pull", " ", "request">>)
        THEN <<"pullRequests">> ELSE << >>)
    \o (IF Includes(query, <<"komitto">>) \/ Includes(query, <<"commit">>)
        THEN <<"commits">> ELSE << >>)
    \o (IF Includes(query, <<"rebyuu">>) \/ Includes(query, <<"review">>)
        THEN <<"reviews">> ELSE << >>)

\* extractComparison (part_003 276-281)
extractComparison(query) ==
    IF IncludesAny(query, ComparisonMarkers) THEN Some("comparison") ELSE None

\* extractAggregation (part_003 283-297)
extractAggregation(query) ==
    IF Includes(query, <<"goukei">>) \/ Includes(query, <<"sum">>) THEN Some("sum")
    ELSE IF Includes(query, <<"heikin">>) \/ Includes(query, <<"avg">>) THEN Some("average")
    ELSE IF Includes(query, <<"saidai">>) \/ Includes(query, <<"max">>) THEN Some("max")
    ELSE IF Includes(query, <<"saishou">>) \/ Includes(query, <<"min">>) THEN Some("min")
    ELSE None

\* extractMinValue (part_003 299-302)
extractMinValue(query) ==
    MatchNumber(query, <<Alternative(<< >>, <<"ijou">>),
                         Alternative(<< >>, <<"ko", "ijou">>),
                         Alternative(<< >>, <<"ken", "ijou">>)>>)

\* extractMaxValue (part_003 304-307)
extractMaxValue(query) ==
    MatchNumber(query, <<Alternative(<< >>, <<"ika">>),
                         Alternative(<< >>, <<"ko", "ika">>),
                         Alternative(<< >>, <<"ken", "ika">>)>>)

\* extractSortBy (part_003 309-326)
extractSortBy(query) ==
    IF Includes(query, <<"ishuu">>) \/ Includes(query, <<"issue">>) THEN Some("issues")
    ELSE IF Includes(query, <<"pururiku">>) \/ Includes(query, <<"pr">>)
    THEN Some("pullRequests")
    ELSE IF Includes(query, <<"komitto">>) \/ Includes(query, <<"commit">>)
    THEN Some("commits")
    ELSE IF Includes(query, <<"rebyuu">>) \/ Includes(query, <<"review">>)
    THEN Some("reviews")
    ELSE IF Includes(query, <<"goukei">>) \/ Includes(query, <<"total">>)
    THEN Some("total")
    ELSE None

\* extractSortOrder (part_003 328-336)
extractSortOrder(query) ==
    IF IncludesAny(query, {<<"ooi">>, <<"jou", "i">>, <<"saidai">>}) THEN Some("desc")
    ELSE IF IncludesAny(query, {<<"sukunai">>, <<"ka", "i">>, <<"saishou">>})
    THEN Some("asc")
    ELSE None

\* extractLimit (part_003 338-341)
extractLimit(query) ==
    MatchNumber(query, <<Alternative(<<"jou", "i">>, << >>),
                         Alternative(<< >>, <<"i", "made">>),
                         Alternative(<< >>, <<"nin">>)>>)

\* parseQuery (part_003 121-144), applied to the query in lower case.
parseQuery(query, activities, today) ==
    LET lowerQuery == toLowerCase(query)
    IN [intent |-> detectIntent(lowerQuery),
        entities |-> [members |-> extractMembers(lowerQuery, activities),
                      organizations |-> extractOrganizations(lowerQuery),
                      dateRange |-> extractDateRange(lowerQuery, today),
                      activityTypes |-> extractActivityTypes(lowerQuery),
                      comparison |-> extractComparison(lowerQuery),
                      aggregation |-> extractAggregation(lowerQuery)],
        filters |-> [minValue |-> extractMinValue(lowerQuery),
                     maxValue |-> extractMaxValue(lowerQuery),
                     sortBy |-> extractSortBy(lowerQuery),
                     sortOrder |-> extractSortOrder(lowerQuery),
                     limit |-> extractLimit(lowerQuery)]]

\* ------------------------------------------------------------------------
\* NaturalLanguageQueryService: executeQuery (part_003 343-739)
\* ------------------------------------------------------------------------

ActivityFields == <<"issues", "pullRequests", "commits", "reviews">>

\* Object.values(months).reduce((sum, data) => sum + data[field], 0)
RECURSIVE SumOverMonths(_, _, _)
SumOverMonths(months, keys, field) ==
    IF keys = {} THEN 0
    ELSE LET k == CHOOSE x \in keys : TRUE
         IN months[k][field] + SumOverMonths(months, keys \ {k}, field)

\* The sum of one field over all months of a record.
FieldTotal(activity, field) ==
    SumOverMonths(activity.activities, DOMAIN activity.activities, field)

\* issues + pullRequests + commits + reviews over all months of a record.
GrandTotal(activity) ==
    FieldTotal(activity, "issues") + FieldTotal(activity, "pullRequests")
        + FieldTotal(activity, "commits") + FieldTotal(activity, "reviews")

\* activities.reduce((sum, a) => sum + <field total of a>, 0)
RECURSIVE SumOverRecords(_, _)
SumOverRecords(activities, field) ==
    IF activities = << >> THEN 0
    ELSE FieldTotal(Head(activities), field) + SumOverRecords(Tail(activities), field)

\* Object.values / Object.keys of activity.activities throws a TypeError
\* when a record read has no activities.
ReadThrows(activities) ==
    \E i \in 1..Len(activities) : ~Has(activities[i], "activities")

\* Array.prototype.filter
filter(seq, keep) == SelectIdx(seq, keep, 1)

\* The member filter keeping the first matching record only.
filterByMembersFirstMatch(activities, members) ==
    IF Len(members) > 0
    THEN LET matching == {i \in 1..Len(activities) :
                            /\ Has(activities[i], "login")
                            /\ \E m \in 1..Len(members) :
                                  members[m] = activities[i].login}
         IN filter(activities,
                   [i \in 1..Len(activities) |->
                       i \in matching /\ \A j \in matching : i <= j])
    ELSE activities

\* filterActivities, by member (part_003 366-371)
filterByMembers(activities, members) ==
    IF Len(members) > 0
    THEN filter(activities,
                [i \in 1..Len(activities) |->
                    /\ Has(activities[i], "login")
                    /\ \E m \in 1..Len(members) : members[m] = activities[i].login])
    ELSE activities

\* filterActivities, by organization (part_003 373-378)
filterByOrganizations(activities, organizations) ==
    IF Len(organizations) > 0
    THEN filter(activities,
                [i \in 1..Len(activities) |->
                    /\ Has(activities[i], "organization")
                    /\ \E o \in 1..Len(organizations) :
                          organizations[o] = activities[i].organization])
    ELSE activities

\* filterActivities, by date range (part_003 380-390): a record is kept
\* when one of its months lies between the months of start and end.
filterByDateRange(activities, dateRange) ==
    IF dateRange # None
    THEN filter(activities,
                [i \in 1..Len(activities) |->
                    \E month \in DOMAIN activities[i].activities :
                        /\ MonthIndex(getMonthKey(dateRange[1].start)) <= MonthIndex(month)
                        /\ MonthIndex(month) <= MonthIndex(getMonthKey(dateRange[1].end))])
    ELSE activities

\* The value if the type counted only when it is the one type detected.
totalValueOfSingleType(activity, activityTypes) ==
    IF Len(activityTypes) = 1
    THEN FieldTotal(activity, activityTypes[1])
    ELSE GrandTotal(activity)

\* The value the minimum and maximum are compared with (part_003 395-419).
totalValue(activity, activityTypes) ==
    IF Len(activityTypes) > 0
    THEN FieldTotal(activity, activityTypes[1])
    ELSE GrandTotal(activity)

\* filterActivities, by minimum and maximum (part_003 392-433)
filterByValue(activities, activityTypes, minValue, maxValue) ==
    IF minValue # None \/ maxValue # None
    THEN filter(activities,
                [i \in 1..Len(activities) |->
                    LET v == totalValue(activities[i], activityTypes)
                    IN /\ ~(minValue # None /\ v < minValue[1])
                       /\ ~(maxValue # None /\ v > maxValue[1])])
    ELSE activities

\* Whether filterActivities throws: a record without activities gets as far
\* as the date or the value filter.
filterActivitiesThrows(activities, parsed) ==
    LET byOrg == filterByOrganizations(
                    filterByMembers(activities, parsed.entities.members),
                    parsed.entities.organizations)
    IN \/ parsed.entities.dateRange # None /\ ReadThrows(byOrg)
       \/ /\ parsed.filters.minValue # None \/ parsed.filters.maxValue # None
          /\ ReadThrows(byOrg)

\* filterActivities (part_003 362-436)
filterActivities(activities, parsed) ==
    filterByValue(
        filterByDateRange(
            filterByOrganizations(
                filterByMembers(activities, parsed.entities.members),
                parsed.entities.organizations),
            parsed.entities.dateRange),
        parsed.entities.activityTypes,
        parsed.filters.minValue, parsed.filters.maxValue)

\* The row of one record in a data or ranking result (part_003 440-455,
\* 614-629).
Row(activity) ==
    [login |-> activity.login,
     name |-> IF Has(activity, "name") THEN activity.name ELSE activity.login,
     organization |-> IF Has(activity, "organizationDisplayName")
                      THEN activity.organizationDisplayName
                      ELSE IF Has(activity, "organization")
                      THEN activity.organization ELSE "undefined",
     issues |-> FieldTotal(activity, "issues"),
     pullRequests |-> FieldTotal(activity, "pullRequests"),
     commits |-> FieldTotal(activity, "commits"),
     reviews |-> FieldTotal(activity, "reviews"),
     total |-> GrandTotal(activity)]

\* Whether row a comes before row b when the comparator's value for the
\* pair is not zero (part_003 459-463).
ComesBefore(a, b, sortBy, sortOrder) ==
    IF sortOrder = Some("asc") THEN a[sortBy] < b[sortBy] ELSE a[sortBy] > b[sortBy]

\* Array.prototype.sort with that comparator: the sort is stable, rows the
\* comparator holds equal stay in their order.
RECURSIVE SortIdx(_, _, _, _)
SortIdx(rows, idxs, sortBy, sortOrder) ==
    IF idxs = {} THEN << >>
    ELSE LET first == CHOOSE i \in idxs :
                        \A j \in idxs \ {i} :
                            \/ ComesBefore(rows[i], rows[j], sortBy, sortOrder)
                            \/ /\ ~ComesBefore(rows[j], rows[i], sortBy, sortOrder)
                               /\ i < j
         IN <<rows[first]>> \o SortIdx(rows, idxs \ {first}, sortBy, sortOrder)

sort(rows, sortBy, sortOrder) == SortIdx(rows, DOMAIN rows, sortBy, sortOrder)

\* if (limit) result.splice(limit) (part_003 467-469): an undefined limit
\* and the limit 0 are falsy.
splice(rows, limit) ==
    IF limit # None /\ limit[1] # 0
    THEN SubSeq(rows, 1, IF limit[1] < Len(rows) THEN limit[1] ELSE Len(rows))
    ELSE rows

\* What a QueryResult carries as data: null, an array, or an object.
NullData == [isNull |-> TRUE]
ArrayData(items) == [isNull |-> FALSE, items |-> items]

QueryResult(type, data, message, query, filters) ==
    [type |-> type, data |-> data, message |-> message, query |-> query,
     filters |-> filters]

\* executeDataQuery (part_003 438-483)
executeDataQuery(parsed, activities, originalQuery) ==
    LET rows == [i \in 1..Len(activities) |-> Row(activities[i])]
        sorted == IF parsed.filters.sortBy # None
                  THEN sort(rows, parsed.filters.sortBy[1], parsed.filters.sortOrder)
                  ELSE rows
        result == splice(sorted, parsed.filters.limit)
    IN QueryResult("data", ArrayData(result),
                   [text |-> "records found", count |-> Len(result)],
                   originalQuery,
                   Some([members |-> parsed.entities.members,
                         organizations |-> parsed.entities.organizations,
                         dateRange |-> parsed.entities.dateRange,
                         activityTypes |-> parsed.entities.activityTypes]))

\* The quotient taken whatever the count is.
AverageUnguarded(total, count) == <<total, count>>

\* A quotient total / count as the pair of its terms, 0 when count is 0
\* (part_003 509-512, 563-568).
Average(total, count) == IF count > 0 THEN <<total, count>> ELSE <<0, 1>>

\* a > b for two such quotients.
AverageGreater(a, b) == a[1] * b[2] > b[1] * a[2]

\* One entry of an organization comparison (part_003 488-513).
ComparisonEntry(org, activities) ==
    LET orgActivities ==
            filter(activities,
                   [i \in 1..Len(activities) |->
                       /\ Has(activities[i], "organization")
                       /\ activities[i].organization = org])
        totalIssues == SumOverRecords(orgActivities, "issues")
        totalPRs == SumOverRecords(orgActivities, "pullRequests")
        totalCommits == SumOverRecords(orgActivities, "commits")
        totalReviews == SumOverRecords(orgActivities, "reviews")
    IN [organization |-> org,
        organizationDisplayName |-> IF org = "macromill" THEN "Macromill"
                                    ELSE "Macromill Mint",
        issues |-> totalIssues,
        pullRequests |-> totalPRs,
        commits |-> totalCommits,
        reviews |-> totalReviews,
        total |-> totalIssues + totalPRs + totalCommits + totalReviews,
        memberCount |-> Len(orgActivities),
        averageIssues |-> Average(totalIssues, Len(orgActivities)),
        averagePRs |-> Average(totalPRs, Len(orgActivities)),
        averageCommits |-> Average(totalCommits, Len(orgActivities)),
        averageReviews |-> Average(totalReviews, Len(orgActivities))]

\* One sentence of generateComparisonInsights: what is compared and which
\* organization is named as having more.
Insight(about, more, less) == [about |-> about, more |-> more, less |-> less]

\* generateComparisonInsights (part_003 682-728)
generateComparisonInsights(comparison) ==
    IF Len(comparison) < 2 THEN << >>
    ELSE LET org1 == comparison[1]
             org2 == comparison[2]
             n1 == org1.organizationDisplayName
             n2 == org2.organizationDisplayName
             avg1 == Average(org1.total, org1.memberCount)
             avg2 == Average(org2.total, org2.memberCount)
         IN (IF org1.memberCount > org2.memberCount
             THEN <<Insight("memberCount", n1, n2)>>
             ELSE IF org2.memberCount > org1.memberCount
             THEN <<Insight("memberCount", n2, n1)>> ELSE << >>)
            \o (IF org1.total > org2.total THEN <<Insight("total", n1, n2)>>
                ELSE IF org2.total > org1.total THEN <<Insight("total", n2, n1)>>
                ELSE << >>)
            \o (IF AverageGreater(avg1, avg2) THEN <<Insight("average", n1, n2)>>
                ELSE IF AverageGreater(avg2, avg1) THEN <<Insight("average", n2, n1)>>
                ELSE << >>)
            \o (IF org1.issues > org2.issues
                THEN <<Insight("issues", n1, n2)>> ELSE << >>)
            \o (IF org1.pullRequests > org2.pullRequests
                THEN <<Insight("pullRequests", n1, n2)>> ELSE << >>)
            \o (IF org1.commits > org2.commits
                THEN <<Insight("commits", n1, n2)>> ELSE << >>)
            \o (IF org1.reviews > org2.reviews
                THEN <<Insight("reviews", n1, n2)>> ELSE << >>)

\* comparison.reduce((sum, org) => sum + org[field], 0)
RECURSIVE SumOverEntries(_, _)
SumOverEntries(comparison, field) ==
    IF comparison = << >> THEN 0
    ELSE Head(comparison)[field] + SumOverEntries(Tail(comparison), field)

\* executeComparison (part_003 485-543)
executeComparison(parsed, activities, originalQuery) ==
    LET organizations == parsed.entities.organizations
    IN IF Len(organizations) > 1
       THEN LET comparison == [o \in 1..Len(organizations) |->
                                  ComparisonEntry(organizations[o], activities)]
            IN QueryResult("comparison",
                   [isNull |-> FALSE,
                    comparison |-> comparison,
                    summary |->
                       [totalOrganizations |-> Len(comparison),
                        totalMembers |-> SumOverEntries(comparison, "memberCount"),
                        totalIssues |-> SumOverEntries(comparison, "issues"),
                        totalPRs |-> SumOverEntries(comparison, "pullRequests"),
                        totalCommits |-> SumOverEntries(comparison, "commits"),
                        totalReviews |-> SumOverEntries(comparison, "reviews"),
                        totalActivities |-> SumOverEntries(comparison, "total")],
                    insights |-> generateComparisonInsights(comparison)],
                   [text |-> "comparison of", organizations |-> organizations],
                   originalQuery,
                   Some([organizations |-> organizations]))
       ELSE executeDataQuery(parsed, activities, originalQuery)

\* executeAnalysis (part_003 545-575)
executeAnalysis(parsed, activities, originalQuery) ==
    LET n == Len(activities)
        totalIssues == SumOverRecords(activities, "issues")
        totalPRs == SumOverRecords(activities, "pullRequests")
        totalCommits == SumOverRecords(activities, "commits")
        totalReviews == SumOverRecords(activities, "reviews")
    IN QueryResult("analysis",
           [isNull |-> FALSE,
            totalMembers |-> n,
            totalIssues |-> totalIssues,
            totalPRs |-> totalPRs,
            totalCommits |-> totalCommits,
            totalReviews |-> totalReviews,
            averageIssues |-> Average(totalIssues, n),
            averagePRs |-> Average(totalPRs, n),
            averageCommits |-> Average(totalCommits, n),
            averageReviews |-> Average(totalReviews, n)],
           [text |-> "analysis of members", count |-> n],
           originalQuery, None)

\* executeAggregation (part_003 577-610)
executeAggregation(parsed, activities, originalQuery) ==
    LET n == Len(activities)
        sum == [f \in Range(ActivityFields) |-> SumOverRecords(activities, f)]
    IN QueryResult("summary",
           [isNull |-> FALSE,
            sum |-> sum,
            average |-> [f \in Range(ActivityFields) |-> Average(sum[f], n)]],
           [text |-> "aggregation of members", count |-> n],
           originalQuery, None)

\* executeRanking (part_003 612-649)
executeRanking(parsed, activities, originalQuery) ==
    LET rows == [i \in 1..Len(activities) |-> Row(activities[i])]
        sortBy == IF parsed.filters.sortBy # None THEN parsed.filters.sortBy[1]
                  ELSE "total"
        ranking == splice(sort(rows, sortBy, parsed.filters.sortOrder),
                          parsed.filters.limit)
    IN QueryResult("data", ArrayData(ranking),
                   [text |-> "ranking by", sortBy |-> sortBy],
                   originalQuery, None)

\* The months of the records, each once.
TimelineMonths(activities) ==
    UNION {DOMAIN activities[i].activities : i \in 1..Len(activities)}

\* timeline[month][field] summed over the records that have the month.
RECURSIVE TimelineSum(_, _, _)
TimelineSum(activities, month, field) ==
    IF activities = << >> THEN 0
    ELSE (IF month \in DOMAIN Head(activities).activities
          THEN Head(activities).activities[month][field] ELSE 0)
         + TimelineSum(Tail(activities), month, field)

\* Object.entries(timeline).sort(([a], [b]) => a.localeCompare(b))
RECURSIVE SortMonths(_)
SortMonths(months) ==
    IF months = {} THEN << >>
    ELSE LET first == CHOOSE a \in months :
                         \A b \in months : MonthIndex(a) <= MonthIndex(b)
         IN <<first>> \o SortMonths(months \ {first})

\* executeTimeline (part_003 651-680)
executeTimeline(parsed, activities, originalQuery) ==
    LET months == SortMonths(TimelineMonths(activities))
        sortedTimeline ==
            [m \in 1..Len(months) |->
                LET issues == TimelineSum(activities, months[m], "issues")
                    pullRequests == TimelineSum(activities, months[m], "pullRequests")
                    commits == TimelineSum(activities, months[m], "commits")
                    reviews == TimelineSum(activities, months[m], "reviews")
                IN [month |-> months[m], issues |-> issues,
                    pullRequests |-> pullRequests, commits |-> commits,
                    reviews |-> reviews,
                    total |-> issues + pullRequests + commits + reviews]]
    IN QueryResult("trend", ArrayData(sortedTimeline),
                   [text |-> "activity by period"], originalQuery, None)

\* Whether the builder of the intent throws: it reads the activities of
\* every record it is given (executeComparison those of the organizations
\* it compares, every record when it gives the plain data result).
executeThrows(parsed, activities) ==
    IF parsed.intent = "comparison" /\ Len(parsed.entities.organizations) > 1
    THEN ReadThrows(filterByOrganizations(activities, parsed.entities.organizations))
    ELSE ReadThrows(activities)

\* executeQuery (part_003 343-360), for a query whose execution does not
\* throw.
executeQuery(parsed, activities, originalQuery) ==
    LET filteredActivities == filterActivities(activities, parsed)
    IN CASE parsed.intent = "comparison" ->
                executeComparison(parsed, filteredActivities, originalQuery)
         [] parsed.intent = "analysis" ->
                executeAnalysis(parsed, filteredActivities, originalQuery)
         [] parsed.intent = "aggregation" ->
                executeAggregation(parsed, filteredActivities, originalQuery)
         [] parsed.intent = "ranking" ->
                executeRanking(parsed, filteredActivities, originalQuery)
         [] parsed.intent = "timeline" ->
                executeTimeline(parsed, filteredActivities, originalQuery)
         [] OTHER ->
                executeDataQuery(parsed, filteredActivities, originalQuery)

\* Whether parseQuery or executeQuery throws.
QueryThrows(activities, query, today) ==
    \/ extractMembersThrows(activities)
    \/ LET parsed == parseQuery(query, activities, today)
       IN \/ filterActivitiesThrows(activities, parsed)
          \/ executeThrows(parsed, filterActivities(activities, parsed))

\* processQuery with the throw of parsing and execution not caught: the
\* caller gets no result.
processQueryNoCatch(activities, query, today) ==
    IF QueryThrows(activities, query, today)
    THEN [threw |-> TRUE]
    ELSE executeQuery(parseQuery(query, activities, today), activities, query)

\* processQuery (part_003 100-119)
processQuery(activities, query, today) ==
    IF QueryThrows(activities, query, today)
    THEN QueryResult("data", NullData, [text |-> "error", error |-> "TypeError"],
                     query, None)
    ELSE executeQuery(parseQuery(query, activities, today), activities, query)

\* ------------------------------------------------------------------------
\* Record sets and queries
\* ------------------------------------------------------------------------

MaxRecords == 2

MaxPhrases == 2

\* The counts of one month of a record.
Counts(issues, pullRequests, commits, reviews) ==
    [issues |-> issues, pullRequests |-> pullRequests, commits |-> commits,
     reviews |-> reviews]

\* Records a service can be given: two members of two organizations, one of
\* them in both with totals that tie, a member without months, a record
\* without login and one without activities.
RecordPool ==
    {[login |-> "mm-kado", name |-> "mm-kado", avatar_url |-> "avatar1",
      organization |-> "macromill", organizationDisplayName |-> "macromill",
      activities |-> (<<2025, 7>> :> Counts(1, 0, 2, 0))
                     @@ (<<2025, 8>> :> Counts(0, 1, 0, 0))],
     [login |-> "test-user", name |-> "Test User", avatar_url |-> "avatar2",
      organization |-> "macromill-mint",
      organizationDisplayName |-> "macromill-mint",
      activities |-> (<<2025, 7>> :> Counts(2, 0, 0, 1))],
     [login |-> "mm-kado", name |-> "mm-kado", avatar_url |-> "avatar3",
      organization |-> "macromill-mint",
      organizationDisplayName |-> "macromill-mint",
      activities |-> (<<2025, 8>> :> Counts(0, 0, 3, 0))],
     [login |-> "ghost", name |-> "ghost", avatar_url |-> "avatar4",
      organization |-> "macromill",
      activities |-> EmptyMap],
     [name |-> "nobody", avatar_url |-> "avatar5",
      organization |-> "macromill",
      activities |-> EmptyMap],
     [login |-> "test-user", name |-> "Test User", avatar_url |-> "avatar2",
      organization |-> "macromill"]}

\* The record lists of up to MaxRecords different records.
RECURSIVE ListsOf(_, _)
ListsOf(pool, n) ==
    IF n = 0 THEN {<< >>}
    ELSE LET shorter == ListsOf(pool, n - 1)
         IN shorter \cup
            {Append(l, r) : l \in {s \in shorter : Len(s) = n - 1},
                            r \in pool}

RecordLists ==
    {l \in ListsOf(RecordPool, MaxRecords) :
        \A i, j \in 1..Len(l) : i # j => l[i] # l[j]}

\* The phrases queries are made of.
Phrases ==
    {<<"mm", "-", "kado">>,
     <<"sonzaishinai", "menbaa">>,
     <<"macromill">>,
     <<"macromill", "-", "min", "t">>,
     <<"macromill", "to", "macromill", "-", "min", "t">>,
     <<"hikaku">>,
     <<"VS">>,
     <<"bunseki">>,
     <<"goukei">>,
     <<"jou", "i", "2">>,
     <<"mottomo", "sukunai">>,
     <<"kikan">>,
     <<"ishuu">>,
     <<"komitto", "to", "ishuu">>,
     <<"1", "ijou">>,
     <<"2", "ika">>,
     <<"0", "nin">>,
     <<"1", "nin">>,
     <<"kongetsu">>,
     <<"sengetsu">>}

\* The queries of up to MaxPhrases phrases; the empty query has none.
RECURSIVE QueriesOf(_)
QueriesOf(n) ==
    IF n = 0 THEN {<< >>}
    ELSE LET shorter == QueriesOf(n - 1)
         IN shorter \cup {q \o p : q \in shorter, p \in Phrases}

Queries == QueriesOf(MaxPhrases)

\* The dates a query is parsed on.
Todays == {<<2025, 8, 15>>, <<2025, 9, 3>>}

\* ------------------------------------------------------------------------
\* State
\* ------------------------------------------------------------------------

VARIABLES
    dataDir,    \* the data directory: file name -> blob
    last,       \* the most recent response: endpoint, status, and whether
                \* a 200 was given over a bucket or snapshot stored before
    clock,      \* the time the next write stamps
    fetchAll,   \* the POST /api/fetch-all-organizations call: idx is the
                \* position in organizations of the fetch it awaits (0 when
                \* no call is in flight), results its report so far
    queryService,   \* the query service: null, or the records it was
                    \* constructed with
    reply,      \* the result of the last processQuery, and its date
    app,        \* the state of the App component and of its member table
    pending,    \* the POST /api/fetch-weekly-data calls of two clients: idle,
                \* awaiting the upstream, or saved
    githubService   \* the GitHubService: its rateLimitInfo and the upstream
                    \* request it is making

vars == <<dataDir, last, clock, fetchAll, queryService, reply, app, pending,
          githubService>>

\* private queryService: NaturalLanguageQueryService | null = null
\* (mcpServer.ts 36)
NoService == [isNull |-> TRUE]

NoReply == [isNull |-> TRUE]

\* The App component before it is mounted.
NoApp == [isNull |-> TRUE]

\* ------------------------------------------------------------------------
\* GitHubService: one upstream request and its retries
\* ------------------------------------------------------------------------

\* const maxRetries = 3 (githubService.ts 328)
maxRetries == 3

\* The attempts one request is followed for.
MaxAttempts == 5

\* The endpoints makeRequest is called with.
Urls == {"members", "repos", "issues"}

\* What axios.get gives: a response with or without the rate-limit headers,
\* or an error with the status and the x-ratelimit-remaining header of its
\* response ("none" without them; no response at all has status "none").
AxiosResponse(status, remaining) == [status |-> status, remaining |-> remaining]

AxiosResponses ==
    {AxiosResponse("200", r) : r \in {"none", "0", "10", "4999"}}
    \cup {AxiosResponse("403", "0"), AxiosResponse("403", "10"),
          AxiosResponse("500", "none"), AxiosResponse("none", "none")}

\* updateRateLimitInfo (githubService.ts 44-56): kept as it was when a
\* header is missing.
updateRateLimitInfo(rateLimitInfo, response) ==
    IF response.remaining # "none" THEN response.remaining ELSE rateLimitInfo

\* makeRequest (githubService.ts 72-106), one axios.get and what follows
\* it: the data is returned; on 403 with x-ratelimit-remaining '0' it
\* waits and calls itself again; any other error is rethrown.
makeRequest(response) ==
    IF response.status = "200" THEN "returned"
    ELSE IF response.status = "403" /\ response.remaining = "0" THEN "running"
    ELSE "threw"

\* The retry loop of getPullRequestsAndReviewsGraphQL (githubService.ts
\* 326-347), one graphqlClient call: retryCount after it and whether the
\* loop goes on.
graphqlAttempt(retryCount, fails) ==
    IF ~fails THEN [retryCount |-> retryCount, state |-> "returned"]
    ELSE IF retryCount + 1 >= maxRetries
    THEN [retryCount |-> retryCount + 1, state |-> "threw"]
    ELSE [retryCount |-> retryCount + 1, state |-> "running"]

\* A request of the service: which call, the endpoint, the number of
\* upstream calls made for it, retryCount, and whether it is running, has
\* returned or has thrown.
UpstreamCall(name, url, attempts, retryCount, state) ==
    [name |-> name, url |-> url, attempts |-> attempts,
     retryCount |-> retryCount, state |-> state]

NoCall == UpstreamCall("none", "none", 0, 0, "idle")

\* private rateLimitInfo: RateLimitInfo | null = null (githubService.ts 23)
NewGitHubService == [rateLimitInfo |-> "null", call |-> NoCall]

\* The clients whose fetch requests may be in flight together.
Clients == {1, 2}

\* A client with no request sent, or with a 400, 409 or 500 received; a
\* client whose last request was saved and answered with 200 keeps it.
Idle == [state |-> "idle"]

NonePending == [c \in Clients |-> Idle]

Request(org, start, end, force) ==
    [org |-> org, start |-> start, end |-> end, force |-> force]

NoDate == <<0, 0, 0>>

EmptyDir == [f \in FileNames |-> Absent]

Response(op, status, overStored) ==
    [op |-> op, status |-> status, overStored |-> overStored]

\* const results = {} (index.ts 246), and no fetch awaited.
NotFetching(results) == [idx |-> 0, results |-> results]

Init ==
    /\ dataDir = EmptyDir
    /\ last = Response("none", "none", FALSE)
    /\ clock = 1
    /\ fetchAll = NotFetching(EmptyMap)
    /\ queryService = NoService
    /\ reply = NoReply
    /\ app = NoApp
    /\ pending = NonePending
    /\ githubService = NewGitHubService

\* A handler that has run to its response: the directory is what it left,
\* and time passes when it wrote.
Respond(op, result, stored) ==
    /\ dataDir' = result.dir
    /\ last' = Response(op, result.status, result.status = "200" /\ stored)
    /\ clock' = IF result.dir # dataDir THEN clock + 1 ELSE clock
    /\ UNCHANGED <<fetchAll, queryService, reply, app, pending, githubService>>

\* ------------------------------------------------------------------------
\* Actions: one request at a time, each handler run to its response
\* ------------------------------------------------------------------------

\* POST /api/fetch-weekly-data answered before the upstream is called.
FetchWeeklyDataRefused(orgName, r, forceUpdate) ==
    LET res == fetchWeeklyData(dataDir, Request(orgName, r[1], r[2], forceUpdate),
                               UpstreamThrows, clock, FALSE)
    IN /\ ~res.calledUpstream
       /\ Respond("fetch-weekly-data", res, FALSE)

\* POST /api/fetch-weekly-data with the upstream called.
FetchWeeklyData(orgName, r, forceUpdate, answer, ioFails) ==
    LET res == fetchWeeklyData(dataDir, Request(orgName, r[1], r[2], forceUpdate),
                               answer, clock, ioFails)
    IN /\ clock < MaxClock
       /\ res.calledUpstream
       /\ Respond("fetch-weekly-data", res, isWeekFetched(dataDir, orgName, r[1]))

\* POST /api/fetch-monthly-data answered before the upstream is called.
FetchMonthlyDataRefused(orgName, r, forceUpdate) ==
    LET res == fetchMonthlyData(dataDir, Request(orgName, r[1], r[2], forceUpdate),
                                UpstreamThrows, clock, FALSE)
    IN /\ ~res.calledUpstream
       /\ Respond("fetch-monthly-data", res, FALSE)

\* POST /api/fetch-monthly-data with the upstream called.
FetchMonthlyData(orgName, r, forceUpdate, answer, ioFails) ==
    LET res == fetchMonthlyData(dataDir, Request(orgName, r[1], r[2], forceUpdate),
                                answer, clock, ioFails)
    IN /\ clock < MaxClock
       /\ res.calledUpstream
       /\ Respond("fetch-monthly-data", res, isMonthFetched(dataDir, orgName, r[1]))

\* POST /api/fetch-data
FetchData(orgName, answer, ioFails) ==
    /\ clock < MaxClock
    /\ Respond("fetch-data",
               fetchData(dataDir, Request(orgName, NoDate, NoDate, FALSE),
                         answer, clock, ioFails),
               orgName # Missing /\ existsSync(dataDir, getOrganizationDataFile(orgName)))

\* POST /api/fetch-mm-kado-all-orgs
FetchMmKadoAllOrgs(answers, ioFails) ==
    /\ clock < MaxClock
    /\ Respond("fetch-mm-kado-all-orgs",
               fetchMmKadoAllOrgs(dataDir, answers, clock, ioFails),
               existsSync(dataDir, getOrganizationDataFile(AllOrganizations)))

\* DELETE /api/weekly-data/:orgName/:weekStart
DeleteWeeklyData(orgName, weekStart, ioFails) ==
    /\ clock < MaxClock
    /\ Respond("delete-weekly-data",
               deleteWeeklyData(dataDir, orgName, weekStart, clock, ioFails),
               isWeekFetched(dataDir, orgName, weekStart))

\* DELETE /api/monthly-data/:orgName/:monthStart; the unlink stamps no
\* time, so none has to pass.
DeleteMonthlyData(orgName, monthStart, ioFails) ==
    LET res == deleteMonthlyData(dataDir, orgName, monthStart, ioFails)
    IN /\ last' = Response("delete-monthly-data", res.status, res.status = "200")
       /\ dataDir' = res.dir
       /\ UNCHANGED <<clock, fetchAll, queryService, reply, app, pending, githubService>>

\* GET /api/activities
GetActivities ==
    LET res == getActivities(dataDir)
    IN Respond("activities", res, FALSE)

\* GET /api/weekly-activities
GetWeeklyActivities ==
    LET res == getWeeklyActivities(dataDir)
    IN Respond("weekly-activities", res, FALSE)

\* GET /api/monthly-activities
GetMonthlyActivities(startMonth, endMonth) ==
    LET res == getMonthlyActivities(dataDir, startMonth, endMonth)
    IN Respond("monthly-activities", res, FALSE)

\* POST /api/fetch-all-organizations without startDate or endDate
\* (index.ts 239-243).
FetchAllOrganizationsRefused ==
    /\ last' = Response("fetch-all-organizations", "400", FALSE)
    /\ UNCHANGED <<dataDir, clock, fetchAll, queryService, reply, app, pending, githubService>>

\* POST /api/fetch-all-organizations up to its first await (index.ts
\* 235-253): the report is empty and the first organization is asked for.
FetchAllOrganizationsBegin ==
    /\ fetchAll.idx = 0
    /\ fetchAll' = [idx |-> 1, results |-> EmptyMap]
    /\ UNCHANGED <<dataDir, last, clock, queryService, reply, app, pending, githubService>>

\* POST /api/fetch-all-organizations from the return of one await to the
\* next await, or to the response after the last organization (index.ts
\* 253-277).
FetchAllOrganizationsReturn(answer, ioFails) ==
    LET org == Organizations[fetchAll.idx]
        it == fetchAllOrganizationsIteration(dataDir, org, answer, clock, ioFails)
        results == With(fetchAll.results, org, it.entry)
    IN /\ fetchAll.idx > 0
       /\ answer.threw \/ clock < MaxClock
       /\ dataDir' = it.dir
       /\ clock' = IF it.dir # dataDir THEN clock + 1 ELSE clock
       /\ IF fetchAll.idx < Len(Organizations)
          THEN /\ fetchAll' = [idx |-> fetchAll.idx + 1, results |-> results]
               /\ UNCHANGED last
          ELSE /\ fetchAll' = NotFetching(results)
               /\ last' = Response("fetch-all-organizations", "200", FALSE)
       /\ UNCHANGED <<queryService, reply, app, pending, githubService>>

RequestOrgs == OrgNames \cup {Missing}

\* Whether the file-system write of a request fails (ioFails); it is drawn
\* only for a request that gets as far as writing.
WriteOutcomes(writes) == IF writes THEN BOOLEAN ELSE {FALSE}

RequestMonths == MonthKeys \cup {NoMonth}

AnswerTuples ==
    {<<a, b>> : a \in MemberAnswers(Organizations[1]),
                b \in MemberAnswers(Organizations[2])}

WeekNext ==
    \/ \E o \in RequestOrgs, r \in WeekRanges, f \in BOOLEAN :
          FetchWeeklyDataRefused(o, r, f)
    \/ \E o \in OrgNames, r \in WeekRanges, f \in BOOLEAN :
          \E a \in UpstreamAnswers(o) : \E io \in WriteOutcomes(~a.threw) :
             FetchWeeklyData(o, r, f, a, io)
    \/ \E o \in OrgNames, s \in WeekStarts :
          \E io \in WriteOutcomes(isWeekFetched(dataDir, o, s)) :
             DeleteWeeklyData(o, s, io)

MonthNext ==
    \/ \E o \in RequestOrgs, r \in MonthRanges, f \in BOOLEAN :
          FetchMonthlyDataRefused(o, r, f)
    \/ \E o \in OrgNames, r \in MonthRanges, f \in BOOLEAN :
          \E a \in UpstreamAnswers(o) : \E io \in WriteOutcomes(~a.threw) :
             FetchMonthlyData(o, r, f, a, io)
    \/ \E o \in OrgNames, s \in MonthStarts :
          \E io \in WriteOutcomes(isMonthFetched(dataDir, o, s)) :
             DeleteMonthlyData(o, s, io)

FlatNext ==
    \/ \E o \in OrgNames :
          \E a \in UpstreamAnswers(o) : \E io \in WriteOutcomes(~a.threw) :
             FetchData(o, a, io)
    \/ FetchData(Missing, UpstreamThrows, FALSE)
    \/ \E as \in AnswerTuples :
          \E io \in WriteOutcomes(Len(CollectMember(as, 1)) > 0) :
             FetchMmKadoAllOrgs(as, io)

\* Answers the upstream can give to the fetch the call awaits.
AwaitedAnswers ==
    IF fetchAll.idx = 0 THEN {} ELSE UpstreamAnswers(Organizations[fetchAll.idx])

FetchAllNext ==
    \/ FetchAllOrganizationsRefused
    \/ FetchAllOrganizationsBegin
    \/ \E a \in AwaitedAnswers :
          \E io \in WriteOutcomes(~a.threw) :
             FetchAllOrganizationsReturn(a, io)

ReadNext ==
    \/ GetActivities
    \/ GetWeeklyActivities
    \/ \E a \in RequestMonths, b \in RequestMonths : GetMonthlyActivities(a, b)

Next == WeekNext \/ MonthNext \/ FlatNext \/ ReadNext

\* The server over a data directory that starts empty.
Spec == Init /\ [][Next]_vars

\* The week and month ledgers alone.
SpecLedger == Init /\ [][WeekNext \/ MonthNext]_vars

\* The flat snapshots alone: the fetch of all organizations, with the other
\* snapshot writers answered while it awaits the upstream.
SpecFlat == Init /\ [][FetchAllNext \/ FlatNext]_vars

\* POST-construction state of new NaturalLanguageQueryService(activities)
\* (part_003 96-98).
Service(activities) == [isNull |-> FALSE, activities |-> activities]

\* await queryService.processQuery(query), parsed on the date today: the
\* one call made on the service after its construction.
ProcessQuery(query, today) ==
    /\ ~queryService.isNull
    /\ reply.isNull
    /\ reply' = [isNull |-> FALSE,
                 today |-> today,
                 result |-> processQuery(queryService.activities, query, today)]
    /\ UNCHANGED <<dataDir, last, clock, fetchAll, queryService, app, pending, githubService>>

\* POST /api/query as the integration test sets it up
\* (api.integration.test.ts 35-52): 400 when the body has no query or an
\* empty one, else the result of a service constructed over the loaded
\* records.
postQuery(activities, body, today) ==
    IF body = None \/ body[1] = << >>
    THEN [status |-> "400", body |-> [error |-> "Query is required"]]
    ELSE [status |-> "200", body |-> processQuery(activities, body[1], today)]

PostQuery(body, today) ==
    /\ ~queryService.isNull
    /\ reply.isNull
    /\ reply' = [isNull |-> FALSE,
                 today |-> today,
                 request |-> body,
                 response |-> postQuery(queryService.activities, body, today)]
    /\ UNCHANGED <<dataDir, last, clock, fetchAll, queryService, app, pending, githubService>>

QueryNext ==
    \/ \E q \in Queries, t \in Todays : ProcessQuery(q, t)
    \/ \E b \in {None} \cup {Some(q) : q \in Queries}, t \in Todays : PostQuery(b, t)

\* A service constructed over a record list.
InitQuery ==
    /\ dataDir = EmptyDir
    /\ last = Response("none", "none", FALSE)
    /\ clock = 1
    /\ fetchAll = NotFetching(EmptyMap)
    /\ queryService \in {Service(l) : l \in RecordLists}
    /\ reply = NoReply
    /\ app = NoApp
    /\ pending = NonePending
    /\ githubService = NewGitHubService

\* The query service over a record list.
SpecQuery == InitQuery /\ [][QueryNext]_vars

\* ------------------------------------------------------------------------
\* The MCP server (mcpServer.ts) over the data directory the HTTP server
\* writes
\* ------------------------------------------------------------------------

\* executeQueryMemberActivities (mcpServer.ts 206-220): the query service
\* is constructed over the stored records when there is none yet, and
\* kept.
executeQueryMemberActivities(service, dir, query, today) ==
    LET queryServiceNow ==
            IF service.isNull
            THEN Service(loadAllOrganizationsActivities(dir).activities)
            ELSE service
    IN [queryService |-> queryServiceNow,
        result |-> processQuery(queryServiceNow.activities, query, today)]

\* The queries sent to the tool query_member_activities.
ToolQueries == {<<"mm", "-", "kado">>, <<"goukei">>}

\* executeTool("query_member_activities", {query}) (mcpServer.ts 166-169)
ExecuteTool(query, today) ==
    LET done == executeQueryMemberActivities(queryService, dataDir, query, today)
    IN /\ queryService' = done.queryService
       /\ reply' = [isNull |-> FALSE, today |-> today, tool |-> "query_member_activities",
                    result |-> done.result]
       /\ UNCHANGED <<dataDir, last, clock, fetchAll, app, pending, githubService>>

McpNext == \E q \in ToolQueries, t \in Todays : ExecuteTool(q, t)

\* The MCP server beside the flat snapshot endpoints.
SpecMcp == Init /\ [][FlatNext \/ McpNext]_vars

\* ------------------------------------------------------------------------
\* Upstream requests of the GitHubService
\* ------------------------------------------------------------------------

\* makeRequest(url) is called.
MakeRequestCall(url) ==
    /\ githubService.call.state # "running"
    /\ githubService' = [githubService EXCEPT
                            !.call = UpstreamCall("makeRequest", url, 0, 0, "running")]
    /\ UNCHANGED <<dataDir, last, clock, fetchAll, queryService, reply, app, pending>>

\* axios.get of a running makeRequest is answered.
MakeRequestAttempt(response) ==
    /\ githubService.call.name = "makeRequest"
    /\ githubService.call.state = "running"
    /\ githubService.call.attempts < MaxAttempts
    /\ githubService' =
          [rateLimitInfo |->
              IF response.status = "200"
              THEN updateRateLimitInfo(githubService.rateLimitInfo, response)
              ELSE githubService.rateLimitInfo,
           call |-> [githubService.call EXCEPT
                        !.attempts = @ + 1,
                        !.state = makeRequest(response)]]
    /\ UNCHANGED <<dataDir, last, clock, fetchAll, queryService, reply, app, pending>>

\* The retry loop of getPullRequestsAndReviewsGraphQL is entered for a
\* page of repositories.
GraphqlCall ==
    /\ githubService.call.state # "running"
    /\ githubService' = [githubService EXCEPT
                            !.call = UpstreamCall("graphql", "graphql", 0, 0, "running")]
    /\ UNCHANGED <<dataDir, last, clock, fetchAll, queryService, reply, app, pending>>

\* graphqlClient of a running loop is answered or fails.
GraphqlAttempt(fails) ==
    /\ githubService.call.name = "graphql"
    /\ githubService.call.state = "running"
    /\ githubService.call.attempts < MaxAttempts
    /\ LET after == graphqlAttempt(githubService.call.retryCount, fails)
       IN githubService' = [githubService EXCEPT
                               !.call.attempts = @ + 1,
                               !.call.retryCount = after.retryCount,
                               !.call.state = after.state]
    /\ UNCHANGED <<dataDir, last, clock, fetchAll, queryService, reply, app, pending>>

UpstreamNext ==
    \/ \E url \in Urls : MakeRequestCall(url)
    \/ \E response \in AxiosResponses : MakeRequestAttempt(response)
    \/ GraphqlCall
    \/ \E fails \in BOOLEAN : GraphqlAttempt(fails)

SpecUpstream == Init /\ [][UpstreamNext]_vars

\* ------------------------------------------------------------------------
\* Two clients of POST /api/fetch-weekly-data: the handler is an async
\* function, so a second request can be handled while the first awaits
\* githubService.getAllMemberActivities (index.ts 362); every part between
\* two awaits runs alone, the synchronous save included.
\* ------------------------------------------------------------------------

\* The handler up to its await (index.ts 337-362): answered at once with
\* 400 or 409, or left awaiting the upstream.
FetchWeeklyDataBegin(c, orgName, r, forceUpdate) ==
    LET req == Request(orgName, r[1], r[2], forceUpdate)
        b == fetchWeeklyDataBegin(dataDir, orgName, r[1], r[2], forceUpdate)
    IN /\ pending[c].state # Awaiting
       /\ pending' = [pending EXCEPT ![c] =
                         IF b.callsUpstream
                         THEN [state |-> Awaiting, req |-> req]
                         ELSE Idle]
       /\ last' = IF b.callsUpstream THEN last
                  ELSE Response("fetch-weekly-data", b.status, FALSE)
       /\ UNCHANGED <<dataDir, clock, fetchAll, queryService, reply, app, githubService>>

\* The handler from its await to the response (index.ts 362-377).
FetchWeeklyDataEnd(c, answer, ioFails) ==
    /\ pending[c].state = Awaiting
    /\ answer.threw \/ clock < MaxClock
    /\ LET req == pending[c].req
           e == fetchWeeklyDataEnd(dataDir, req, answer, clock, ioFails)
       IN /\ dataDir' = e.dir
          /\ clock' = IF e.dir # dataDir THEN clock + 1 ELSE clock
          /\ last' = Response("fetch-weekly-data", e.status,
                              e.status = "200" /\ isWeekFetched(dataDir, req.org, req.start))
          /\ pending' = [pending EXCEPT ![c] =
                            IF e.status = "200"
                            THEN [state |-> "saved", req |-> req]
                            ELSE Idle]
    /\ UNCHANGED <<fetchAll, queryService, reply, app, githubService>>

\* The upstream answers the request a client awaits can get.
PendingAnswers(c) ==
    IF pending[c].state = Awaiting THEN UpstreamAnswers(pending[c].req.org) ELSE {}

RaceNext ==
    \/ \E c \in Clients, o \in RequestOrgs, r \in WeekRanges, f \in BOOLEAN :
          FetchWeeklyDataBegin(c, o, r, f)
    \/ \E c \in Clients : \E a \in PendingAnswers(c) :
          \E io \in WriteOutcomes(~a.threw) : FetchWeeklyDataEnd(c, a, io)
    \/ \E o \in OrgNames, s \in WeekStarts :
          \E io \in WriteOutcomes(isWeekFetched(dataDir, o, s)) :
             DeleteWeeklyData(o, s, io)

\* The week endpoints with two clients' requests in flight.
SpecRace == Init /\ [][RaceNext]_vars

\* ------------------------------------------------------------------------
\* The frontend: App (src/frontend/src/App.tsx) and its member table
\* (src/unnamed/part_007)
\* ------------------------------------------------------------------------

\* How often the member table may recompute its summaries over one loaded
\* collection.
MaxRecomputes == 2

NoCounts == Counts(0, 0, 0, 0)

\* counts.issues += data.issues, and so for the other three fields
AddCounts(counts, data) ==
    [f \in Range(ActivityFields) |-> counts[f] + data[f]]

\* activities.filter(a => a.login === memberLogin), as indices
\* (App.tsx 655)
IndicesOf(activities, memberLogin) ==
    {i \in 1..Len(activities) : activities[i].login = memberLogin}

\* The sum of the counts of one month over some of the records.
RECURSIVE SumOfMonth(_, _, _)
SumOfMonth(activities, idxs, yearMonth) ==
    IF idxs = {} THEN NoCounts
    ELSE LET i == CHOOSE x \in idxs : TRUE
             rest == SumOfMonth(activities, idxs \ {i}, yearMonth)
         IN IF yearMonth \in DOMAIN activities[i].activities
            THEN AddCounts(rest, activities[i].activities[yearMonth])
            ELSE rest

\* getCombinedMemberActivity (App.tsx 654-699, and 89-139 in the first
\* version of the component): null without a record of the login, else a
\* new record whose months are new objects that sum the months of the
\* records of the login.
getCombinedMemberActivity(activities, memberLogin) ==
    LET memberActivities == IndicesOf(activities, memberLogin)
    IN IF memberActivities = {} THEN None
       ELSE LET firstActivity ==
                    activities[CHOOSE i \in memberActivities :
                                   \A j \in memberActivities : i <= j]
                several == Cardinality(memberActivities) > 1
                yearMonths == UNION {DOMAIN activities[i].activities :
                                        i \in memberActivities}
            IN Some([login |-> firstActivity.login,
                     name |-> firstActivity.name,
                     avatar_url |-> firstActivity.avatar_url,
                     organization |->
                        IF several THEN "multiple" ELSE firstActivity.organization,
                     organizationDisplayName |->
                        IF several THEN "fukusuu soshiki"
                        ELSE IF Has(firstActivity, "organizationDisplayName")
                        THEN firstActivity.organizationDisplayName
                        ELSE "undefined",
                     activities |->
                        [ym \in yearMonths |->
                            SumOfMonth(activities, memberActivities, ym)]])

\* The position in the member map of a login, 0 when it is not there
\* (part_007 88).
PositionOf(members, login) ==
    IF \E p \in 1..Len(members) : members[p].login = login
    THEN CHOOSE p \in 1..Len(members) : members[p].login = login
    ELSE 0

\* One iteration of activities.forEach in memberSummaries (part_007
\* 86-144), on the record at index k.  A member of the map is kept with
\* the index of the record that created it: its monthlyData is
\* { ...activity.activities }, a copy of that record's month table whose
\* month objects are the record's own, so that adding to such a month
\* (part_007 115-118) adds to the record; the months the merge has created
\* itself (part_007 113) are kept in own.
memberSummariesStep(st, k) ==
    LET activity == st.activities[k]
        p == PositionOf(st.members, activity.login)
        totalIssues == FieldTotal(activity, "issues")
        totalPullRequests == FieldTotal(activity, "pullRequests")
        totalCommits == FieldTotal(activity, "commits")
        totalReviews == FieldTotal(activity, "reviews")
    IN IF p # 0
       THEN LET existingMember == st.members[p]
                first == st.activities[existingMember.first]
                shared == DOMAIN activity.activities \cap DOMAIN first.activities
                created == (DOMAIN activity.activities \ DOMAIN first.activities)
                               \cup DOMAIN existingMember.own
            IN [activities |->
                   [st.activities EXCEPT ![existingMember.first].activities =
                       [ym \in DOMAIN first.activities |->
                           IF ym \in shared
                           THEN AddCounts(first.activities[ym], activity.activities[ym])
                           ELSE first.activities[ym]]],
                members |->
                   [st.members EXCEPT ![p] =
                       [existingMember EXCEPT
                           !.totalIssues = @ + totalIssues,
                           !.totalPullRequests = @ + totalPullRequests,
                           !.totalCommits = @ + totalCommits,
                           !.totalReviews = @ + totalReviews,
                           !.own =
                               [ym \in created |->
                                   LET before == IF ym \in DOMAIN existingMember.own
                                                 THEN existingMember.own[ym]
                                                 ELSE NoCounts
                                   IN IF ym \in DOMAIN activity.activities
                                      THEN AddCounts(before, activity.activities[ym])
                                      ELSE before]]]]
       ELSE [activities |-> st.activities,
             members |->
                Append(st.members,
                       [login |-> activity.login,
                        name |-> IF Has(activity, "name") THEN activity.name
                                 ELSE activity.login,
                        avatar_url |-> activity.avatar_url,
                        totalIssues |-> totalIssues,
                        totalPullRequests |-> totalPullRequests,
                        totalCommits |-> totalCommits,
                        totalReviews |-> totalReviews,
                        first |-> k,
                        own |-> EmptyMap])]

RECURSIVE memberSummariesFrom(_, _)
memberSummariesFrom(st, k) ==
    IF k > Len(st.activities) THEN st
    ELSE memberSummariesFrom(memberSummariesStep(st, k), k + 1)

\* One member of the map as the table holds it (part_007 52-61).
MemberSummary(member, activities) ==
    [login |-> member.login,
     name |-> member.name,
     avatar_url |-> member.avatar_url,
     totalIssues |-> member.totalIssues,
     totalPullRequests |-> member.totalPullRequests,
     totalCommits |-> member.totalCommits,
     totalReviews |-> member.totalReviews,
     monthlyData |->
        [ym \in DOMAIN activities[member.first].activities \cup DOMAIN member.own |->
            IF ym \in DOMAIN member.own THEN member.own[ym]
            ELSE activities[member.first].activities[ym]]]

\* memberSummaries (part_007 80-149): the summaries, and the records of the
\* collection as the computation leaves them.
memberSummaries(activities) ==
    LET done == memberSummariesFrom([activities |-> activities, members |-> << >>], 1)
    IN [summaries |-> [p \in 1..Len(done.members) |->
                          MemberSummary(done.members[p], done.activities)],
        activities |-> done.activities]

\* The records the API can answer with: well-formed records of two members,
\* one of them in two organizations and with two records of one
\* organization.
AppRecordPool ==
    {r \in RecordPool : Has(r, "login") /\ Has(r, "activities")}
    \cup {[login |-> "mm-kado", name |-> "mm-kado", avatar_url |-> "avatar1",
           organization |-> "macromill", organizationDisplayName |-> "macromill",
           activities |-> (<<2025, 8>> :> Counts(1, 0, 0, 2))]}

AppRecordLists ==
    {l \in ListsOf(AppRecordPool, MaxRecords) :
        \A i, j \in 1..Len(l) : i # j => l[i] # l[j]}

Logins == {"mm-kado", "test-user", "ghost", "nobody"}

StartMonths == {"2025-07", "2025-08"}

EndMonths == {"2025-08", "2025-09"}

\* The App component as mounted (App.tsx 344-366); fetched is what the last
\* response carried, activities the objects in memory.
MountedApp ==
    [isNull |-> FALSE,
     activities |-> << >>,
     fetched |-> << >>,
     selectedMember |-> "",
     displayStartMonth |-> "",
     displayEndMonth |-> "",
     showPeriodSummary |-> FALSE,
     selectedMemberActivity |-> None,
     memberSummaries |-> None,
     recomputes |-> 0]

\* The member table is rendered (App.tsx 908-929).
TableShown(state) ==
    /\ state.showPeriodSummary
    /\ state.displayStartMonth # ""
    /\ state.displayEndMonth # ""
    /\ Len(state.activities) > 0

\* One render of App after its state was set: the body computes
\* selectedMemberActivity (App.tsx 701); then the member table, if shown,
\* runs its useMemo, which recomputes when it is mounted or one of
\* activities, startDate, endDate has changed (part_007 80, 149).
Render(state, depsChanged) ==
    LET body == [state EXCEPT
                    !.selectedMemberActivity =
                        getCombinedMemberActivity(state.activities, state.selectedMember)]
    IN IF ~TableShown(body)
       THEN [body EXCEPT !.memberSummaries = None]
       ELSE IF depsChanged \/ body.memberSummaries = None
       THEN LET memo == memberSummaries(body.activities)
            IN [body EXCEPT !.memberSummaries = Some(memo.summaries),
                            !.activities = memo.activities,
                            !.recomputes = @ + 1]
       ELSE body

\* loadActivities (App.tsx 400-404)
LoadActivities(list) ==
    /\ ~app.isNull
    /\ app' = Render([app EXCEPT !.activities = list, !.fetched = list,
                                 !.recomputes = 0], TRUE)
    /\ UNCHANGED <<dataDir, last, clock, fetchAll, queryService, reply, pending, githubService>>

\* loadDisplayPeriodData (App.tsx 611-622)
LoadDisplayPeriodData(list) ==
    /\ ~app.isNull
    /\ app.displayStartMonth # ""
    /\ app.displayEndMonth # ""
    /\ app' = Render([app EXCEPT !.activities = list, !.fetched = list,
                                 !.showPeriodSummary = TRUE,
                                 !.recomputes = 0], TRUE)
    /\ UNCHANGED <<dataDir, last, clock, fetchAll, queryService, reply, pending, githubService>>

\* onMemberSelect={setSelectedMember} (App.tsx 902)
SetSelectedMember(login) ==
    /\ ~app.isNull
    /\ login # app.selectedMember
    /\ app' = Render([app EXCEPT !.selectedMember = login], FALSE)
    /\ UNCHANGED <<dataDir, last, clock, fetchAll, queryService, reply, pending, githubService>>

\* onChange={(e) => setDisplayStartMonth(e.target.value)} (App.tsx 856)
SetDisplayStartMonth(month) ==
    /\ ~app.isNull
    /\ month # app.displayStartMonth
    /\ app.recomputes < MaxRecomputes
    /\ app' = Render([app EXCEPT !.displayStartMonth = month], TRUE)
    /\ UNCHANGED <<dataDir, last, clock, fetchAll, queryService, reply, pending, githubService>>

\* onChange={(e) => setDisplayEndMonth(e.target.value)} (App.tsx 865)
SetDisplayEndMonth(month) ==
    /\ ~app.isNull
    /\ month # app.displayEndMonth
    /\ app.recomputes < MaxRecomputes
    /\ app' = Render([app EXCEPT !.displayEndMonth = month], TRUE)
    /\ UNCHANGED <<dataDir, last, clock, fetchAll, queryService, reply, pending, githubService>>

AppNext ==
    \/ \E l \in AppRecordLists : LoadActivities(l)
    \/ \E l \in AppRecordLists : LoadDisplayPeriodData(l)
    \/ \E login \in Logins : SetSelectedMember(login)
    \/ \E m \in StartMonths : SetDisplayStartMonth(m)
    \/ \E m \in EndMonths : SetDisplayEndMonth(m)

InitApp ==
    /\ dataDir = EmptyDir
    /\ last = Response("none", "none", FALSE)
    /\ clock = 1
    /\ fetchAll = NotFetching(EmptyMap)
    /\ queryService = NoService
    /\ reply = NoReply
    /\ app = MountedApp
    /\ pending = NonePending
    /\ githubService = NewGitHubService

\* The App component in a browser.
SpecApp == InitApp /\ [][AppNext]_vars

\* ------------------------------------------------------------------------
\* Data directories the server can be started on: besides the empty one,
\* directories that hold one blob it did not write itself, either a month
\* map in the layout of the earlier version (README, "months") or a blob
\* that does not parse.
\* ------------------------------------------------------------------------

LegacyMonths(orgName) ==
    [k \in {<<2024, 1>>} |->
        MonthData(k, <<2024, 1, 1>>, <<2024, 1, 31>>, 0,
                  <<MemberActivity(orgName, "mm-kado")>>)]

ForeignBlobs ==
    LET o == Organizations[1]
    IN {<<getWeeklyDataFile(o), Corrupt>>,
        <<getMonthlyDataFile(o, <<2024, 1>>), Corrupt>>,
        <<getMonthlyDataFile(o, <<2024, 1>>), MonthsFile(o, LegacyMonths(o), 0)>>,
        <<getMonthlyDataFileOld(o), MonthsFile(o, LegacyMonths(o), 0)>>,
        <<getMonthlyDataFileOld(o), Corrupt>>,
        <<getOrganizationDataFile(o), Corrupt>>,
        <<getOrganizationDataFile(AllOrganizations), Corrupt>>}

StartDirs == {EmptyDir} \cup {[EmptyDir EXCEPT ![fb[1]] = fb[2]] : fb \in ForeignBlobs}

InitDisk ==
    /\ dataDir \in StartDirs
    /\ last = Response("none", "none", FALSE)
    /\ clock = 1
    /\ fetchAll = NotFetching(EmptyMap)
    /\ queryService = NoService
    /\ reply = NoReply
    /\ app = NoApp
    /\ pending = NonePending
    /\ githubService = NewGitHubService

SpecDisk == InitDisk /\ [][Next]_vars

\* ------------------------------------------------------------------------
\* What the ledger shows of one bucket, through its three read operations
\* ------------------------------------------------------------------------

WeekView(dir, orgName, weekStart) ==
    [fetched |-> isWeekFetched(dir, orgName, weekStart),
     loaded |-> loadWeeklyActivities(dir, orgName, weekStart),
     listed |-> {e \in Range(getFetchedWeeks(dir, orgName)) :
                    e.key = getWeekKey(weekStart)}]

MonthView(dir, orgName, monthStart) ==
    [fetched |-> isMonthFetched(dir, orgName, monthStart),
     loaded |-> loadMonthlyActivities(dir, orgName, monthStart),
     listed |-> {e \in Range(getFetchedMonths(dir, orgName)) :
                    e.key = getMonthKey(monthStart)}]

\* Every week bucket other than (orgName, key) shows the same in d1 and d2.
OtherWeeksSame(d1, d2, orgName, key) ==
    \A o \in OrgNames, s \in WeekStarts :
        (o # orgName \/ getWeekKey(s) # key) => WeekView(d1, o, s) = WeekView(d2, o, s)

\* Every month bucket other than (orgName, key) shows the same in d1 and d2.
OtherMonthsSame(d1, d2, orgName, key) ==
    \A o \in OrgNames, s \in MonthStarts :
        (o # orgName \/ getMonthKey(s) # key) => MonthView(d1, o, s) = MonthView(d2, o, s)

NoKey == <<0, 0>>

\* ------------------------------------------------------------------------
\* C1
\* ------------------------------------------------------------------------

\* C1: a fetch request without forceUpdate for a week or month that is
\* stored is answered 409 with the requested range, whatever the upstream
\* would answer: the upstream is not called and the data directory is left
\* as it was.
C1_StoredFetchIsRefused ==
    /\ \A o \in OrgNames, r \in WeekRanges, io \in BOOLEAN :
         \A a \in UpstreamAnswers(o) :
            isWeekFetched(dataDir, o, r[1]) =>
               LET res == fetchWeeklyData(dataDir, Request(o, r[1], r[2], FALSE),
                                          a, clock, io)
               IN /\ res.status = "409"
                  /\ ~res.calledUpstream
                  /\ res.start = r[1] /\ res.end = r[2]
                  /\ res.dir = dataDir
    /\ \A o \in OrgNames, r \in MonthRanges, io \in BOOLEAN :
         \A a \in UpstreamAnswers(o) :
            isMonthFetched(dataDir, o, r[1]) =>
               LET res == fetchMonthlyData(dataDir, Request(o, r[1], r[2], FALSE),
                                           a, clock, io)
               IN /\ res.status = "409"
                  /\ ~res.calledUpstream
                  /\ res.start = r[1] /\ res.end = r[2]
                  /\ res.dir = dataDir

\* A fetch of a stored week has been refused while a month is stored too.
C1_Witness ==
    /\ last.op = "fetch-weekly-data"
    /\ last.status = "409"
    /\ \E o \in OrgNames, s \in MonthStarts : isMonthFetched(dataDir, o, s)

\* ------------------------------------------------------------------------
\* C2
\* ------------------------------------------------------------------------

\* C2: a fetch request with forceUpdate for a week or month that is stored,
\* whose upstream fetch and save succeed, replaces the bucket: afterwards
\* the listing has exactly one entry for the key, with the range of the new
\* request and the time of this write, which is later than the time of the
\* bucket replaced; loading the bucket returns the new records; and every
\* other week and month bucket of every organization shows as before.
C2_ForcedFetchReplaces ==
    /\ \A o \in OrgNames, r \in WeekRanges : \A a \in UpstreamResults(o) :
          isWeekFetched(dataDir, o, r[1]) =>
             LET res == fetchWeeklyData(dataDir, Request(o, r[1], r[2], TRUE),
                                        UpstreamReturns(a), clock, FALSE)
                 key == getWeekKey(r[1])
                 before == WeekView(dataDir, o, r[1])
                 after == WeekView(res.dir, o, r[1])
             IN /\ res.status = "200"
                /\ after.fetched
                /\ after.listed = {[key |-> key, start |-> r[1], end |-> r[2],
                                    lastUpdated |-> clock]}
                /\ \A e \in before.listed : e.lastUpdated < clock
                /\ after.loaded = Found(a)
                /\ Len(SelectSeq(getFetchedWeeks(res.dir, o),
                                 LAMBDA e : e.key = key)) = 1
                /\ OtherWeeksSame(dataDir, res.dir, o, key)
                /\ OtherMonthsSame(dataDir, res.dir, o, NoKey)
    /\ \A o \in OrgNames, r \in MonthRanges : \A a \in UpstreamResults(o) :
          isMonthFetched(dataDir, o, r[1]) =>
             LET res == fetchMonthlyData(dataDir, Request(o, r[1], r[2], TRUE),
                                         UpstreamReturns(a), clock, FALSE)
                 key == getMonthKey(r[1])
                 before == MonthView(dataDir, o, r[1])
                 after == MonthView(res.dir, o, r[1])
             IN /\ res.status = "200"
                /\ after.fetched
                /\ after.listed = {[key |-> key, start |-> r[1], end |-> r[2],
                                    lastUpdated |-> clock]}
                /\ \A e \in before.listed : e.lastUpdated < clock
                /\ after.loaded = Found(a)
                /\ Len(SelectSeq(getFetchedMonths(res.dir, o),
                                 LAMBDA e : e.key = key)) = 1
                /\ OtherMonthsSame(dataDir, res.dir, o, key)
                /\ OtherWeeksSame(dataDir, res.dir, o, NoKey)

\* A forced fetch has just replaced a stored week by a bucket of the same
\* key and another range.
C2_Witness ==
    /\ last = Response("fetch-weekly-data", "200", TRUE)
    /\ \E o \in OrgNames :
          \E e \in WeekView(dataDir, o, <<2024, 1, 1>>).listed :
             e.start = <<2024, 12, 30>> /\ e.lastUpdated = clock - 1

\* ------------------------------------------------------------------------
\* C3
\* ------------------------------------------------------------------------

\* C3: a week or month fetch request that calls the upstream and then fails,
\* because the upstream fetch throws or because the save throws, is
\* answered 500 and leaves the data directory exactly as it was, whether or
\* not the bucket was stored and whether or not forceUpdate was set.
C3_FailedFetchChangesNothing ==
    /\ \A o \in OrgNames, r \in WeekRanges, force \in BOOLEAN, io \in BOOLEAN :
         \A a \in UpstreamAnswers(o) :
            LET res == fetchWeeklyData(dataDir, Request(o, r[1], r[2], force),
                                       a, clock, io)
            IN /\ (res.calledUpstream /\ (a.threw \/ io)) =>
                     (res.status = "500" /\ res.dir = dataDir)
               /\ res.status # "200" => res.dir = dataDir
    /\ \A o \in OrgNames, r \in MonthRanges, force \in BOOLEAN, io \in BOOLEAN :
         \A a \in UpstreamAnswers(o) :
            LET res == fetchMonthlyData(dataDir, Request(o, r[1], r[2], force),
                                        a, clock, io)
            IN /\ (res.calledUpstream /\ (a.threw \/ io)) =>
                     (res.status = "500" /\ res.dir = dataDir)
               /\ res.status # "200" => res.dir = dataDir

\* A month fetch has just failed while a month bucket is stored.
C3_Witness ==
    /\ last = Response("fetch-monthly-data", "500", FALSE)
    /\ \E o \in OrgNames, s \in MonthStarts : isMonthFetched(dataDir, o, s)

\* ------------------------------------------------------------------------
\* C4
\* ------------------------------------------------------------------------

\* C4: in every state, for every organization and month, isMonthFetched is
\* true exactly when loadMonthlyActivities returns records (non-null) and
\* exactly when getFetchedMonths lists the month; and likewise for the three
\* week operations.
C4_ViewsAgree ==
    /\ \A o \in OrgNames, s \in MonthStarts :
          LET v == MonthView(dataDir, o, s)
          IN /\ v.fetched <=> ~v.loaded.isNull
             /\ v.fetched <=> v.listed # {}
    /\ \A o \in OrgNames, s \in WeekStarts :
          LET v == WeekView(dataDir, o, s)
          IN /\ v.fetched <=> ~v.loaded.isNull
             /\ v.fetched <=> v.listed # {}

\* ------------------------------------------------------------------------
\* C5
\* ------------------------------------------------------------------------

\* C5: a delete whose file operations succeed returns true exactly when the
\* bucket was stored (fetched) before the call; after it returned true the
\* bucket is not fetched, not listed and not loadable; after it returned
\* false the data directory is as before; and in both cases every other
\* bucket of every organization shows as before.
C5_DeleteRemovesOneBucket ==
    /\ \A o \in OrgNames, s \in WeekStarts :
          LET r == deleteWeeklyActivities(dataDir, o, s, clock, FALSE)
              after == WeekView(r.dir, o, s)
          IN /\ r.deleted <=> isWeekFetched(dataDir, o, s)
             /\ r.deleted => (~after.fetched /\ after.listed = {} /\ after.loaded.isNull)
             /\ ~r.deleted => r.dir = dataDir
             /\ OtherWeeksSame(dataDir, r.dir, o, getWeekKey(s))
             /\ OtherMonthsSame(dataDir, r.dir, o, NoKey)
    /\ \A o \in OrgNames, s \in MonthStarts :
          LET r == deleteMonthlyActivities(dataDir, o, s, FALSE)
              after == MonthView(r.dir, o, s)
          IN /\ r.deleted <=> isMonthFetched(dataDir, o, s)
             /\ r.deleted => (~after.fetched /\ after.listed = {} /\ after.loaded.isNull)
             /\ ~r.deleted => r.dir = dataDir
             /\ OtherMonthsSame(dataDir, r.dir, o, getMonthKey(s))
             /\ OtherWeeksSame(dataDir, r.dir, o, NoKey)

\* ------------------------------------------------------------------------
\* C6
\* ------------------------------------------------------------------------

\* C6: for an organization without a bucket for a month, saving records for
\* the month makes getFetchedMonths list one entry for it whose monthKey is
\* the year and month of the range start and whose range and time are those
\* given; loadMonthlyActivities then returns the saved records; deleting the
\* bucket then returns true, isMonthFetched is false, and the data directory
\* equals the one before the save.
C6_MonthRoundTrip ==
    \A o \in OrgNames, r \in MonthRanges : \A a \in UpstreamResults(o) :
       ~isMonthFetched(dataDir, o, r[1]) =>
          LET saved == saveMonthlyActivities(dataDir, o, r[1], r[2], a, clock, FALSE)
              listed == getFetchedMonths(saved.dir, o)
              mine == SelectSeq(listed, LAMBDA e : e.key = <<r[1][1], r[1][2]>>)
              removed == deleteMonthlyActivities(saved.dir, o, r[1], FALSE)
          IN /\ ~saved.threw
             /\ isMonthFetched(saved.dir, o, r[1])
             /\ mine = <<[key |-> <<r[1][1], r[1][2]>>, start |-> r[1],
                          end |-> r[2], lastUpdated |-> clock]>>
             /\ Len(listed) = Len(getFetchedMonths(dataDir, o)) + 1
             /\ loadMonthlyActivities(saved.dir, o, r[1]) = Found(a)
             /\ removed.deleted
             /\ ~isMonthFetched(removed.dir, o, r[1])
             /\ removed.dir = dataDir

\* A month has been saved and deleted again next to a stored month of the
\* same organization: the delete has just answered 200 and the deleted month
\* is no longer fetched.
C6_Witness ==
    /\ last = Response("delete-monthly-data", "200", TRUE)
    /\ \E o \in OrgNames :
          /\ ~isMonthFetched(dataDir, o, <<2024, 2, 1>>)
          /\ isMonthFetched(dataDir, o, <<2024, 1, 1>>)
          /\ clock = MaxClock

\* ------------------------------------------------------------------------
\* C7
\* ------------------------------------------------------------------------

\* C7: a blob that does not parse counts as no data for every read: for an
\* unparseable week file no week of the organization is fetched, loadable
\* or listed; for an unparseable month file its month is not fetched, not
\* loadable and not listed, while the months of the organization's files
\* that parse are still listed; an unparseable legacy month file or flat
\* snapshot loads as null; and the load-all operations still return a
\* result with an entry for every configured organization.
C7_UnreadableIsNoData ==
    /\ \A o \in OrgNames :
          ParseThrows(dataDir, getWeeklyDataFile(o)) =>
             /\ getFetchedWeeks(dataDir, o) = << >>
             /\ \A s \in WeekStarts :
                   /\ ~isWeekFetched(dataDir, o, s)
                   /\ loadWeeklyActivities(dataDir, o, s).isNull
    /\ \A o \in OrgNames, s \in MonthStarts :
          ParseThrows(dataDir, getMonthlyDataFile(o, getMonthKey(s))) =>
             /\ ~isMonthFetched(dataDir, o, s)
             /\ loadMonthlyActivities(dataDir, o, s).isNull
             /\ MonthView(dataDir, o, s).listed = {}
             /\ \A s2 \in MonthStarts :
                   LET f2 == getMonthlyDataFile(o, getMonthKey(s2))
                   IN (existsSync(dataDir, f2) /\ ~ParseThrows(dataDir, f2)) =>
                         MonthView(dataDir, o, s2).listed # {}
    /\ \A o \in OrgNames, s \in MonthStarts :
          (/\ ParseThrows(dataDir, getMonthlyDataFileOld(o))
           /\ ~existsSync(dataDir, getMonthlyDataFile(o, getMonthKey(s)))) =>
             loadMonthlyActivities(dataDir, o, s).isNull
    /\ \A o \in OrgNames :
          ParseThrows(dataDir, getOrganizationDataFile(o)) =>
             loadOrganizationActivities(dataDir, o).isNull
    /\ DOMAIN loadAllOrganizationsActivities(dataDir).organizations = OrgNames
    /\ DOMAIN loadAllOrganizationsWeeklyActivities(dataDir).organizations = OrgNames
    /\ \A a \in MonthKeys, b \in MonthKeys :
          DOMAIN loadAllOrganizationsMonthlyActivities(dataDir, a, b).organizations
             = OrgNames

\* ------------------------------------------------------------------------
\* C8
\* ------------------------------------------------------------------------

\* The records of all week and month buckets stored for an organization.
BucketRecords(dir, orgName) ==
    UNION ({Range(loadWeeklyActivities(dir, orgName, s).activities) : s \in WeekStarts}
           \cup
           {Range(loadMonthlyActivities(dir, orgName, s).activities) : s \in MonthStarts})

\* An organization has at least one week or month bucket.
HasBucket(dir, orgName) ==
    \/ getFetchedWeeks(dir, orgName) # << >>
    \/ getFetchedMonths(dir, orgName) # << >>

\* C8: for an organization that has at least one bucket, the records that
\* loadAllOrganizationsActivities returns for it are the records of its
\* buckets, not those of its flat snapshot.
C8_LoadAllPrefersBuckets ==
    LET result == loadAllOrganizationsActivities(dataDir)
    IN \A o \in OrgNames :
          HasBucket(dataDir, o) =>
             {x \in Range(result.activities) : x.src = o} = BucketRecords(dataDir, o)

\* ------------------------------------------------------------------------
\* C9
\* ------------------------------------------------------------------------

\* The organization of a returned record: its organization field, or, where
\* the field is unset, the organization whose fetch produced the record.
OrgOf(record) ==
    IF record.organization = Undefined THEN record.src ELSE record.organization

\* No two records of a list carry the same (login, organization).
NoDuplicates(activities) ==
    \A i, j \in 1..Len(activities) :
        (activities[i].login = activities[j].login
         /\ OrgOf(activities[i]) = OrgOf(activities[j])) => i = j

\* C9: none of the three load-all results holds two records with the same
\* (login, organization).
C9_LoadAllHasNoDuplicates ==
    /\ NoDuplicates(loadAllOrganizationsActivities(dataDir).activities)
    /\ NoDuplicates(loadAllOrganizationsWeeklyActivities(dataDir).activities)
    /\ \A a \in MonthKeys, b \in MonthKeys :
          NoDuplicates(loadAllOrganizationsMonthlyActivities(dataDir, a, b).activities)

\* ------------------------------------------------------------------------
\* C10
\* ------------------------------------------------------------------------

\* The number of records of a list that the fetch for an organization
\* produced.
CountFrom(activities, orgName) ==
    Cardinality({i \in 1..Len(activities) : activities[i].src = orgName})

\* The statistics of a load-all result have one entry for each configured
\* organization, and each entry counts the records of the result that come
\* from that organization.
StatsMatch(result) ==
    /\ DOMAIN result.organizations = OrgNames
    /\ \A o \in OrgNames :
          result.organizations[o].count = CountFrom(result.activities, o)

\* C10: the statistics of each of the three load-all results have exactly
\* one entry per configured organization, its count being the number of
\* returned records that come from that organization, 0 when there is none.
C10_StatsCoverEveryOrganization ==
    /\ StatsMatch(loadAllOrganizationsActivities(dataDir))
    /\ StatsMatch(loadAllOrganizationsWeeklyActivities(dataDir))
    /\ \A a \in MonthKeys, b \in MonthKeys :
          StatsMatch(loadAllOrganizationsMonthlyActivities(dataDir, a, b))

\* GET /api/weekly-activities has just answered with records of one
\* organization and count 0 for the other, while the month range February
\* to February gives count 0 to an organization whose only month is January.
C10_Witness ==
    /\ last = Response("weekly-activities", "200", FALSE)
    /\ LET weekly == loadAllOrganizationsWeeklyActivities(dataDir).organizations
           monthly == loadAllOrganizationsMonthlyActivities(
                         dataDir, <<2024, 2>>, <<2024, 2>>).organizations
       IN /\ \E o \in OrgNames : weekly[o].count = 0
          /\ \E o \in OrgNames : weekly[o].count > 0
          /\ \E o \in OrgNames :
                /\ isMonthFetched(dataDir, o, <<2024, 1, 1>>)
                /\ monthly[o].count = 0

\* ------------------------------------------------------------------------
\* C11.  In one fetch-all-organizations call the organizations are
\* processed one after another in configured order: while the fetch of
\* organization k is awaited the report holds exactly the entries of the
\* k-1 organizations before it, and a step of the call adds the entry of
\* organization k alone.  A failed organization is reported success=false,
\* count=0 with its error and the directory is left as it was; a fetched
\* one is reported with its count and its snapshot holds that many records;
\* in either case the next organization is asked for, and after the last
\* one the call answers 200 with one entry per configured organization.
\* ------------------------------------------------------------------------

FirstOrganizations(n) == {Organizations[i] : i \in 1..n}

C11_Step ==
    LET k == fetchAll.idx
    IN /\ fetchAll'.idx > 0 =>
            DOMAIN fetchAll'.results = FirstOrganizations(fetchAll'.idx - 1)
       /\ (k > 0 /\ fetchAll' # fetchAll) =>
            LET org == Organizations[k]
                e == fetchAll'.results[org]
                loaded == loadOrganizationActivities(dataDir', org)
            IN /\ DOMAIN fetchAll'.results = FirstOrganizations(k)
               /\ \A o \in DOMAIN fetchAll.results :
                     fetchAll'.results[o] = fetchAll.results[o]
               /\ IF e.success
                  THEN /\ e.error = "none"
                       /\ ~loaded.isNull
                       /\ Len(loaded.activities) = e.count
                       /\ \A f \in FileNames \ {getOrganizationDataFile(org)} :
                             dataDir'[f] = dataDir[f]
                  ELSE /\ e.count = 0
                       /\ e.error # "none"
                       /\ dataDir' = dataDir
               /\ IF k < Len(Organizations)
                  THEN fetchAll'.idx = k + 1
                  ELSE /\ fetchAll'.idx = 0
                       /\ DOMAIN fetchAll'.results = OrgNames
                       /\ last' = Response("fetch-all-organizations", "200", FALSE)

C11_FetchAllInOrder == [][C11_Step]_vars

\* A call has answered: the first organization failed and its snapshot
\* stored before is still there, the second was fetched and saved.
C11_Witness ==
    /\ last = Response("fetch-all-organizations", "200", FALSE)
    /\ fetchAll.idx = 0
    /\ DOMAIN fetchAll.results = OrgNames
    /\ ~fetchAll.results[Organizations[1]].success
    /\ fetchAll.results[Organizations[2]].success
    /\ fetchAll.results[Organizations[2]].count > 0
    /\ ~loadOrganizationActivities(dataDir, Organizations[1]).isNull
    /\ ~loadOrganizationActivities(dataDir, Organizations[2]).isNull

\* ------------------------------------------------------------------------
\* The query service: what a call of processQuery was given and returned
\* ------------------------------------------------------------------------

\* A call of processQuery has returned.
Returned == ~reply.isNull /\ Has(reply, "result")

\* The query of the call as the service parsed it.
Parsed == parseQuery(reply.result.query, queryService.activities, reply.today)

\* Parsing or executing the query of the call threw.
Threw == QueryThrows(queryService.activities, reply.result.query, reply.today)

\* ------------------------------------------------------------------------
\* C12.  processQuery never propagates an exception: every call returns a
\* QueryResult whose type is one of data, analysis, summary, comparison,
\* trend; the type is data for the data and ranking intents, analysis for
\* analysis, summary for aggregation, trend for timeline, and comparison
\* for the comparison intent with at least two organizations (data with
\* fewer); when parsing or execution throws, the result has type data, data
\* null and a message that carries the error.
\* ------------------------------------------------------------------------

C12_ProcessQueryNeverThrows ==
    Returned =>
        /\ DOMAIN reply.result = {"type", "data", "message", "query", "filters"}
        /\ reply.result.type \in {"data", "analysis", "summary", "comparison", "trend"}
        /\ IF Threw
           THEN /\ reply.result.type = "data"
                /\ reply.result.data = NullData
                /\ Has(reply.result.message, "error")
           ELSE /\ reply.result.data # NullData
                /\ reply.result.type =
                      CASE Parsed.intent \in {"data", "ranking"} -> "data"
                        [] Parsed.intent = "analysis" -> "analysis"
                        [] Parsed.intent = "aggregation" -> "summary"
                        [] Parsed.intent = "timeline" -> "trend"
                        [] Parsed.intent = "comparison" ->
                              IF Len(Parsed.entities.organizations) >= 2
                              THEN "comparison" ELSE "data"

\* A comparison query was given to a service one of whose records has no
\* activities, and the throw came back as a result with data null.
C12_Witness ==
    /\ Returned
    /\ Threw
    /\ ~extractMembersThrows(queryService.activities)
    /\ Parsed.intent = "comparison"
    /\ reply.result.data = NullData

\* ------------------------------------------------------------------------
\* C13.  For the empty query string, against any loaded record set,
\* processQuery returns a result with type data and data null, and POST
\* /api/query answers an empty query with 200 and that result.
\* ------------------------------------------------------------------------

C13_EmptyQueryGivesNull ==
    /\ (Returned /\ reply.result.query = << >>) =>
          /\ reply.result.type = "data"
          /\ reply.result.data = NullData
    /\ (~reply.isNull /\ Has(reply, "request") /\ reply.request = Some(<< >>)) =>
          /\ reply.response.status = "200"
          /\ reply.response.body =
                processQuery(queryService.activities, << >>, reply.today)
          /\ reply.response.body.data = NullData

\* ------------------------------------------------------------------------
\* C14.  A data-intent query that asks for a member who is not among the
\* loaded records (no known login, no organization, date or numeric filter
\* in the text) returns an empty result: data has length 0 and the message
\* reports 0 records found.
\* ------------------------------------------------------------------------

UnknownMember == <<"sonzaishinai", "menbaa">>

C14_UnknownMemberGivesNothing ==
    (/\ Returned
     /\ ~Threw
     /\ Includes(reply.result.query, UnknownMember)
     /\ Parsed.intent = "data"
     /\ Parsed.entities.members = << >>
     /\ Parsed.entities.organizations = << >>
     /\ Parsed.entities.dateRange = None
     /\ Parsed.filters.minValue = None
     /\ Parsed.filters.maxValue = None
     /\ Parsed.filters.limit = None) =>
        /\ Has(reply.result.data, "items")
        /\ Len(reply.result.data.items) = 0
        /\ reply.result.message = [text |-> "records found", count |-> 0]

\* ------------------------------------------------------------------------
\* C15.  Intent detection is first-match in the fixed order comparison,
\* analysis, aggregation, ranking, timeline, data: the detected intent is
\* the first of these one of whose markers occurs in the lower-cased
\* query, and data when none occurs; a query with both a comparison marker
\* and a ranking marker is classified as comparison.
\* ------------------------------------------------------------------------

IntentOrder == <<"comparison", "analysis", "aggregation", "ranking", "timeline">>

MarkersOf(intent) ==
    CASE intent = "comparison" -> {<<"hikaku">>, <<"vs">>, <<"tai">>}
      [] intent = "analysis" -> {<<"bunseki">>, <<"keikou">>, <<"pataan">>}
      [] intent = "aggregation" -> {<<"goukei">>, <<"heikin">>, <<"shuukei">>}
      [] intent = "ranking" -> {<<"jou", "i">>, <<"mottomo">>, <<"ooi">>}
      [] intent = "timeline" -> {<<"kikan">>, <<"itsu">>}

Marked(query, intent) == \E kw \in MarkersOf(intent) : Includes(query, kw)

C15_IntentIsFirstMatch ==
    Returned =>
        LET lowerQuery == toLowerCase(reply.result.query)
            intent == detectIntent(lowerQuery)
        IN /\ \A i \in DOMAIN IntentOrder :
                 (/\ Marked(lowerQuery, IntentOrder[i])
                  /\ \A j \in 1..(i - 1) : ~Marked(lowerQuery, IntentOrder[j]))
                     => intent = IntentOrder[i]
           /\ (\A i \in DOMAIN IntentOrder : ~Marked(lowerQuery, IntentOrder[i]))
                 => intent = "data"
           /\ (Marked(lowerQuery, "comparison") /\ Marked(lowerQuery, "ranking"))
                 => intent = "comparison"
           /\ ~Threw => Parsed.intent = intent

\* A query with a comparison marker in upper case and a ranking marker
\* was answered with a comparison.
C15_Witness ==
    /\ Returned
    /\ ~Threw
    /\ Includes(reply.result.query, <<"VS">>)
    /\ Includes(reply.result.query, <<"jou", "i">>)
    /\ reply.result.type = "comparison"

\* ------------------------------------------------------------------------
\* C16.  For a comparison query that names both macromill and
\* macromill-mint, the result has type comparison and its data is a
\* sequence of exactly two per-organization entries, macromill first and
\* macromill-mint second.
\* ------------------------------------------------------------------------

C16_ComparisonInNamedOrder ==
    (/\ Returned
     /\ ~Threw
     /\ Includes(reply.result.query,
                 <<"macromill", "to", "macromill", "-", "min", "t">>)
     /\ Parsed.intent = "comparison") =>
        /\ reply.result.type = "comparison"
        /\ Has(reply.result.data, "items")
        /\ Len(reply.result.data.items) = 2
        /\ reply.result.data.items[1].organization = "macromill"
        /\ reply.result.data.items[2].organization = "macromill-mint"

\* ------------------------------------------------------------------------
\* C17.  For a query with the ranking intent and no sort-field keyword the
\* result has type data, its entries are the filtered records ordered by
\* total in non-increasing order, records with equal total keep their
\* input order, and when a limit N was extracted the result has exactly
\* min(N, number of filtered records) entries.
\* ------------------------------------------------------------------------

\* The records the query of the call selects.
Filtered == filterActivities(queryService.activities, Parsed)

\* The place of the record at index p among the records ordered by total,
\* largest first, equal totals in input order.
RankByTotal(records, p) ==
    1 + Cardinality({q \in DOMAIN records :
                        \/ GrandTotal(records[q]) > GrandTotal(records[p])
                        \/ /\ GrandTotal(records[q]) = GrandTotal(records[p])
                           /\ q < p})

Min(a, b) == IF a < b THEN a ELSE b

C17_RankingByTotalDescending ==
    (/\ Returned
     /\ ~Threw
     /\ Parsed.intent = "ranking"
     /\ Parsed.filters.sortBy = None) =>
        /\ reply.result.type = "data"
        /\ Has(reply.result.data, "items")
        /\ LET items == reply.result.data.items
               kept == IF Parsed.filters.limit = None THEN Len(Filtered)
                       ELSE Min(Parsed.filters.limit[1], Len(Filtered))
           IN /\ Len(items) = kept
              /\ \A p \in DOMAIN Filtered :
                    RankByTotal(Filtered, p) <= kept =>
                        items[RankByTotal(Filtered, p)] = Row(Filtered[p])

\* ------------------------------------------------------------------------
\* C18.  When a minValue or maxValue was extracted, a record is kept
\* exactly when its scalar lies in [minValue, maxValue] (a missing bound
\* does not restrict).  As claimed, the scalar is the sum over all months
\* of the one detected activity type if exactly one type was detected and
\* the grand total if zero or more than one was detected
\* (C18_ScalarOfSingleType).  As the code has it, the scalar is the sum of
\* the first detected activity type, in the order issues, pullRequests,
\* commits, reviews, whenever at least one type was detected, and the
\* grand total only when none was (C18_ScalarOfFirstType).
\* ------------------------------------------------------------------------

\* The records that reach the value filter.
ValueInput ==
    filterByDateRange(
        filterByOrganizations(
            filterByMembers(queryService.activities, Parsed.entities.members),
            Parsed.entities.organizations),
        Parsed.entities.dateRange)

InBounds(v) ==
    /\ Parsed.filters.minValue # None => v >= Parsed.filters.minValue[1]
    /\ Parsed.filters.maxValue # None => v <= Parsed.filters.maxValue[1]

ClaimedScalar(activity) ==
    IF Len(Parsed.entities.activityTypes) = 1
    THEN FieldTotal(activity, Parsed.entities.activityTypes[1])
    ELSE GrandTotal(activity)

FirstTypeScalar(activity) ==
    IF Parsed.entities.activityTypes # << >>
    THEN FieldTotal(activity, Head(Parsed.entities.activityTypes))
    ELSE GrandTotal(activity)

ClaimedKept(activity) == InBounds(ClaimedScalar(activity))

FirstTypeKept(activity) == InBounds(FirstTypeScalar(activity))

ValueFilterApplies ==
    /\ Returned
    /\ ~Threw
    /\ Parsed.filters.minValue # None \/ Parsed.filters.maxValue # None

\* The rows of a data or ranking result that was not truncated are the
\* rows of the given records.
RowsAreOf(records) ==
    (/\ Parsed.intent \in {"data", "ranking"}
     /\ Parsed.filters.limit = None) =>
        /\ Len(reply.result.data.items) = Len(records)
        /\ Range(reply.result.data.items) = {Row(r) : r \in Range(records)}

MemberLists ==
    LET logins == {"mm-kado", "test-user", "nobody"}
    IN {<< >>} \cup {<<a>> : a \in logins} \cup {<<a, b>> : a \in logins, b \in logins}

OrganizationLists ==
    LET orgs == {"macromill", "macromill-mint"}
    IN {<< >>} \cup {<<a>> : a \in orgs} \cup {<<a, b>> : a \in orgs, b \in orgs}

LoginIn(activity, members) ==
    Has(activity, "login") /\ activity.login \in Range(members)

OrganizationIn(activity, organizations) ==
    Has(activity, "organization") /\ activity.organization \in Range(organizations)

\* The records of the set, in order, that are in both sets.
Intersection(activities, members, organizations) ==
    LET InBoth(a) == LoginIn(a, members) /\ OrganizationIn(a, organizations)
    IN SelectSeq(activities, InBoth)

\* The same where an empty set does not restrict.
IntersectionOfGiven(activities, members, organizations) ==
    LET InBoth(a) == /\ members # << >> => LoginIn(a, members)
                     /\ organizations # << >> => OrganizationIn(a, organizations)
    IN SelectSeq(activities, InBoth)

OrganizationsThenMembers(activities, members, organizations) ==
    filterByMembers(filterByOrganizations(activities, organizations), members)

MembersThenOrganizations(activities, members, organizations) ==
    filterByOrganizations(filterByMembers(activities, members), organizations)

\* The query of the call has neither a date range nor a value bound.
OnlyMembersAndOrganizations ==
    /\ Returned
    /\ ~Threw
    /\ Parsed.entities.dateRange = None
    /\ Parsed.filters.minValue = None
    /\ Parsed.filters.maxValue = None

Asked ==
    {<<m, o>> : m \in MemberLists, o \in OrganizationLists}
        \cup {<<Parsed.entities.members, Parsed.entities.organizations>>}

C19_FiltersIntersect ==
    OnlyMembersAndOrganizations =>
        /\ \A mo \in Asked :
              /\ OrganizationsThenMembers(queryService.activities, mo[1], mo[2])
                    = MembersThenOrganizations(queryService.activities, mo[1], mo[2])
              /\ OrganizationsThenMembers(queryService.activities, mo[1], mo[2])
                    = Intersection(queryService.activities, mo[1], mo[2])
        /\ Filtered = Intersection(queryService.activities,
                                   Parsed.entities.members,
                                   Parsed.entities.organizations)

C19_FiltersCommute ==
    OnlyMembersAndOrganizations =>
        /\ \A mo \in Asked :
              /\ OrganizationsThenMembers(queryService.activities, mo[1], mo[2])
                    = MembersThenOrganizations(queryService.activities, mo[1], mo[2])
              /\ OrganizationsThenMembers(queryService.activities, mo[1], mo[2])
                    = IntersectionOfGiven(queryService.activities, mo[1], mo[2])
        /\ Filtered = IntersectionOfGiven(queryService.activities,
                                          Parsed.entities.members,
                                          Parsed.entities.organizations)

\* A query named a member and an organization over two records of that
\* member: the member filter kept both, the organization filter one.
C19_Witness ==
    /\ OnlyMembersAndOrganizations
    /\ Parsed.entities.members # << >>
    /\ Parsed.entities.organizations # << >>
    /\ Len(Filtered) = 1
    /\ Len(filterByMembers(queryService.activities, Parsed.entities.members)) = 2
    /\ Len(queryService.activities) = 2
    /\ Parsed.intent = "data"
    /\ Len(reply.result.data.items) = 1

\* ------------------------------------------------------------------------
\* C20.  Merging the records of one login (getCombinedMemberActivity in
\* the app, memberSummaries in the member table) preserves totals: each of
\* the four per-field totals of the merged record, and each per-month
\* count, equals the sum of the corresponding values over the records of
\* that login as they were loaded, also when the merge is recomputed on
\* the same collection.
\* ------------------------------------------------------------------------

\* The loaded records of a login.
FetchedOf(login) ==
    LET OfLogin(r) == r.login = login
    IN SelectSeq(app.fetched, OfLogin)

\* The count of one field in one month of a record, 0 without the month.
CountIn(record, yearMonth, field) ==
    IF yearMonth \in DOMAIN record.activities
    THEN record.activities[yearMonth][field] ELSE 0

RECURSIVE SumOfCounts(_, _, _)
SumOfCounts(records, yearMonth, field) ==
    IF records = << >> THEN 0
    ELSE CountIn(Head(records), yearMonth, field)
            + SumOfCounts(Tail(records), yearMonth, field)

MonthsOf(records) == UNION {DOMAIN records[i].activities : i \in DOMAIN records}

\* The months of a merged record are those of the loaded records of its
\* login and carry their sums.
MonthsPreserved(months, login) ==
    /\ DOMAIN months = MonthsOf(FetchedOf(login))
    /\ \A ym \in DOMAIN months : \A f \in Range(ActivityFields) :
          months[ym][f] = SumOfCounts(FetchedOf(login), ym, f)

TotalOf(summary, field) ==
    CASE field = "issues" -> summary.totalIssues
      [] field = "pullRequests" -> summary.totalPullRequests
      [] field = "commits" -> summary.totalCommits
      [] field = "reviews" -> summary.totalReviews

C20_MergePreservesTotals ==
    ~app.isNull =>
        /\ app.memberSummaries # None =>
              \A p \in DOMAIN app.memberSummaries[1] :
                  LET summary == app.memberSummaries[1][p]
                  IN /\ MonthsPreserved(summary.monthlyData, summary.login)
                     /\ \A f \in Range(ActivityFields) :
                           TotalOf(summary, f)
                              = SumOverRecords(FetchedOf(summary.login), f)
        /\ app.selectedMemberActivity # None =>
              LET merged == app.selectedMemberActivity[1]
              IN /\ MonthsPreserved(merged.activities, merged.login)
                 /\ \A f \in Range(ActivityFields) :
                       FieldTotal(merged, f)
                          = SumOverRecords(FetchedOf(merged.login), f)

\* ------------------------------------------------------------------------
\* C21.  The merged record of a login has organization "multiple" exactly
\* when records of more than one distinct organization contributed to it;
\* when all contributing records belong to one organization (also when
\* there are several such records) the merged record keeps that
\* organization and its display name; name and avatar come from the first
\* contributing record in input order.
\* ------------------------------------------------------------------------

OrganizationsOf(records) == {records[i].organization : i \in DOMAIN records}

C21_MultipleOnlyAcrossOrganizations ==
    (~app.isNull /\ app.selectedMemberActivity # None) =>
        LET merged == app.selectedMemberActivity[1]
            contributing == FetchedOf(merged.login)
            first == Head(contributing)
        IN /\ merged.name = first.name
           /\ merged.avatar_url = first.avatar_url
           /\ (merged.organization = "multiple")
                 <=> (Cardinality(OrganizationsOf(contributing)) > 1)
           /\ Cardinality(OrganizationsOf(contributing)) = 1 =>
                 /\ merged.organization = first.organization
                 /\ Has(first, "organizationDisplayName") =>
                       merged.organizationDisplayName = first.organizationDisplayName

\* ------------------------------------------------------------------------
\* C22.  Aggregation never mutates its input: after the member-table merge
\* (memberSummaries) and the per-login merge (getCombinedMemberActivity),
\* every input record and every one of its monthly count objects has
\* exactly the values it was loaded with, also when two input records
\* share a login and a month.
\* ------------------------------------------------------------------------

C22_InputNeverMutated ==
    ~app.isNull =>
        /\ Len(app.activities) = Len(app.fetched)
        /\ \A i \in DOMAIN app.fetched :
              /\ DOMAIN app.activities[i].activities = DOMAIN app.fetched[i].activities
              /\ \A ym \in DOMAIN app.fetched[i].activities :
                    app.activities[i].activities[ym] = app.fetched[i].activities[ym]
              /\ app.activities[i] = app.fetched[i]

\* ------------------------------------------------------------------------
\* C23.  For the aggregation and analysis intents over the filtered
\* records: each sum field equals the sum of that field over all months of
\* all filtered records; with at least one filtered record each average
\* times the number of filtered records equals the sum; with no filtered
\* record every sum and every average is 0 and nothing is divided by zero;
\* a record with no months contributes 0 and still counts in the number of
\* records.
\* ------------------------------------------------------------------------

\* The (record, month) pairs of a record list.
MonthCells(records) ==
    {<<i, ym>> : i \in DOMAIN records, ym \in MonthsOf(records)}

RECURSIVE SumOfCells(_, _, _)
SumOfCells(records, cells, field) ==
    IF cells = {} THEN 0
    ELSE LET c == CHOOSE x \in cells : TRUE
         IN CountIn(records[c[1]], c[2], field)
               + SumOfCells(records, cells \ {c}, field)

\* The sum of one field over all months of all records.
SumOfField(records, field) == SumOfCells(records, MonthCells(records), field)

\* A quotient, as the pair of its terms, is the average of sum over count
\* records: defined, equal to sum / count, and 0 without records.
IsAverageOf(quotient, sum, count) ==
    /\ quotient[2] # 0
    /\ IF count > 0 THEN quotient[1] * count = sum * quotient[2]
       ELSE quotient[1] = 0

C23_SumsAndAverages ==
    (Returned /\ ~Threw) =>
        /\ Parsed.intent = "aggregation" =>
              LET data == reply.result.data
              IN /\ reply.result.message.count = Len(Filtered)
                 /\ \A f \in Range(ActivityFields) :
                       /\ data.sum[f] = SumOfField(Filtered, f)
                       /\ IsAverageOf(data.average[f], data.sum[f], Len(Filtered))
        /\ Parsed.intent = "analysis" =>
              LET data == reply.result.data
              IN /\ data.totalMembers = Len(Filtered)
                 /\ data.totalIssues = SumOfField(Filtered, "issues")
                 /\ data.totalPRs = SumOfField(Filtered, "pullRequests")
                 /\ data.totalCommits = SumOfField(Filtered, "commits")
                 /\ data.totalReviews = SumOfField(Filtered, "reviews")
                 /\ IsAverageOf(data.averageIssues, data.totalIssues, Len(Filtered))
                 /\ IsAverageOf(data.averagePRs, data.totalPRs, Len(Filtered))
                 /\ IsAverageOf(data.averageCommits, data.totalCommits, Len(Filtered))
                 /\ IsAverageOf(data.averageReviews, data.totalReviews, Len(Filtered))

\* An aggregation over two records, one of them without months, and an
\* analysis over no record at all.
C23_Witness ==
    /\ Returned
    /\ ~Threw
    /\ \/ /\ Parsed.intent = "aggregation"
          /\ Len(Filtered) = 2
          /\ \E i \in DOMAIN Filtered : DOMAIN Filtered[i].activities = {}
          /\ reply.result.data.sum["commits"] = 2
          /\ reply.result.data.average["commits"] = <<2, 2>>
       \/ /\ Parsed.intent = "analysis"
          /\ Len(queryService.activities) > 0
          /\ Len(Filtered) = 0
          /\ reply.result.data.averageIssues = <<0, 1>>

\* ------------------------------------------------------------------------
\* C24.  The existence check and the save of a fetch request are separated
\* by the asynchronous upstream fetch and not protected by a lock: two
\* non-forced requests for the same absent (organization, week key) can
\* both pass the check and both save.  In every interleaving each save
\* leaves exactly one bucket for its key, whose payload, range and
\* timestamp are entirely those of the request that saved (so the bucket
\* is that of the last writer, never a mix), and no bucket of another key
\* or of another organization is lost or changed.
\* ------------------------------------------------------------------------

\* The weeks a directory holds for an organization.
WeeksIn(dir, orgName) ==
    IF dir[getWeeklyDataFile(orgName)].kind = "weekly"
    THEN dir[getWeeklyDataFile(orgName)].weeks ELSE EmptyMap

C24_Step ==
    \A c \in Clients :
        pending[c].state = Awaiting =>
            LET req == pending[c].req
                key == getWeekKey(req.start)
                before == WeeksIn(dataDir, req.org)
                after == WeeksIn(dataDir', req.org)
            IN /\ pending'[c].state = "saved" =>
                     /\ DOMAIN after = DOMAIN before \cup {key}
                     /\ \E a \in UpstreamResults(req.org) :
                           after[key] = WeekData(req.start, req.end, clock, a)
                     /\ \A k \in DOMAIN before \ {key} : after[k] = before[k]
                     /\ \A f \in FileNames \ {getWeeklyDataFile(req.org)} :
                           dataDir'[f] = dataDir[f]
               /\ pending'[c] = Idle => dataDir' = dataDir

C24_LastWriterWins == [][C24_Step]_vars

\* Both clients sent a non-forced request for the same organization and
\* week key with different ranges, both were saved, and the bucket is the
\* one of the second client alone.
C24_Witness ==
    /\ pending[1].state = "saved"
    /\ pending[2].state = "saved"
    /\ ~pending[1].req.force
    /\ ~pending[2].req.force
    /\ pending[1].req.org = pending[2].req.org
    /\ getWeekKey(pending[1].req.start) = getWeekKey(pending[2].req.start)
    /\ pending[1].req.start # pending[2].req.start
    /\ LET bucket == WeeksIn(dataDir, pending[2].req.org)[getWeekKey(pending[2].req.start)]
       IN /\ bucket.weekStart = pending[2].req.start
          /\ bucket.weekEnd = pending[2].req.end
          /\ bucket.lastUpdated = 2
    /\ clock = 3

\* ------------------------------------------------------------------------
\* C25.  A natural-language query run through the MCP tool
\* query_member_activities is answered from the data stored at the time of
\* that query: after fetches and saves that change the stored snapshots,
\* the next query reflects the changed data, not the data stored when the
\* first query of the server was answered.
\* ------------------------------------------------------------------------

C25_Step ==
    (reply' # reply /\ Has(reply', "tool")) =>
        reply'.result =
            processQuery(loadAllOrganizationsActivities(dataDir).activities,
                         reply'.result.query, reply'.today)

C25_AnsweredFromStoredData == [][C25_Step]_vars

\* ------------------------------------------------------------------------
\* C26.  The week bucket key 'YYYY-WW' is a uniqueness key: two start
\* dates that lie in different ISO weeks never derive the same key, so a
\* stored week never makes a different week count as already fetched (and
\* a non-forced fetch of it fail with 409), and saving one week never
\* overwrites the bucket of another week.
\* ------------------------------------------------------------------------

\* The day number of the Monday of the ISO week a date lies in.
MondayOf(date) ==
    DaysBeforeYear(date[1]) + DayOfYear(date) - IsoWeekday(date) + 1

SameIsoWeek(d1, d2) == MondayOf(d1) = MondayOf(d2)

\* A start date counts as fetched only when a bucket of its own ISO week
\* is stored.
C26_KeyIsUnique ==
    \A orgName \in OrgNames :
        LET weeks == WeeksIn(dataDir, orgName)
        IN \A d \in WeekStarts :
              isWeekFetched(dataDir, orgName, d) =>
                  \E k \in DOMAIN weeks : SameIsoWeek(weeks[k].weekStart, d)

\* A step never replaces a bucket by one of a different ISO week.
C26_NoOverwriteStep ==
    \A orgName \in OrgNames :
        LET before == WeeksIn(dataDir, orgName)
            after == WeeksIn(dataDir', orgName)
        IN \A k \in DOMAIN before \cap DOMAIN after :
              SameIsoWeek(before[k].weekStart, after[k].weekStart)

C26_NoOverwrite == [][C26_NoOverwriteStep]_vars

\* ------------------------------------------------------------------------
\* C27.  For every recognised relative-time phrase extractDateRange
\* returns a range relative to the parse-time date with start not after
\* end: 'this month' and 'last month' are the first to the last day of the
\* current and of the previous calendar month, 'past week', 'past month'
\* and 'past 3 months' start that long before today and end today; so a
\* record with activity in a covered month passes the date filter.
\* ------------------------------------------------------------------------

NotAfter(d1, d2) ==
    \/ d1[1] < d2[1]
    \/ d1[1] = d2[1] /\ d1[2] < d2[2]
    \/ d1[1] = d2[1] /\ d1[2] = d2[2] /\ d1[3] <= d2[3]

\* The range the phrase of a query stands for on the day it is parsed.
RangeOfPhrase(query, today) ==
    IF Includes(query, <<"kongetsu">>)
    THEN DateRange(startOfMonth(today), endOfMonth(today))
    ELSE IF Includes(query, <<"sengetsu">>)
    THEN DateRange(startOfMonth(subtractMonths(today, 1)),
                   endOfMonth(subtractMonths(today, 1)))
    ELSE IF Includes(query, <<"kako", "1", "shuukan">>) \/ Includes(query, <<"senshuu">>)
    THEN DateRange(subtractWeek(today), today)
    ELSE IF Includes(query, <<"kako", "1", "kagetsu">>)
    THEN DateRange(subtractMonths(today, 1), today)
    ELSE DateRange(subtractMonths(today, 3), today)

C27_RangeOfPhrase ==
    (Returned /\ Parsed.entities.dateRange # None) =>
        LET range == Parsed.entities.dateRange[1]
            meant == RangeOfPhrase(reply.result.query, reply.today)
            readable == SelectSeq(queryService.activities,
                                  LAMBDA a : Has(a, "activities"))
        IN /\ NotAfter(range.start, range.end)
           /\ range = meant
           /\ \A i \in 1..Len(readable) :
                 (\E month \in DOMAIN readable[i].activities :
                     /\ MonthIndex(getMonthKey(meant.start)) <= MonthIndex(month)
                     /\ MonthIndex(month) <= MonthIndex(getMonthKey(meant.end)))
                 => \E j \in 1..Len(filterByDateRange(readable, Parsed.entities.dateRange)) :
                       filterByDateRange(readable, Parsed.entities.dateRange)[j] = readable[i]

\* ------------------------------------------------------------------------
\* C28.  Comparison insights for two organizations are emitted exactly on
\* strict inequality and symmetrically: for member count, total activity,
\* per-member average and each of the four activity types, an insight
\* naming the organization with the larger value is emitted if and only if
\* the two values differ, whichever organization comes first in the list;
\* no insight is emitted for a tie.
\* ------------------------------------------------------------------------

Emitted(insights, insight) == \E i \in 1..Len(insights) : insights[i] = insight

ComparedFields ==
    {"memberCount", "total", "issues", "pullRequests", "commits", "reviews"}

C28_InsightsSymmetric ==
    (Returned /\ reply.result.type = "comparison"
              /\ Has(reply.result.data, "insights")) =>
        LET org1 == reply.result.data.comparison[1]
            org2 == reply.result.data.comparison[2]
            n1 == org1.organizationDisplayName
            n2 == org2.organizationDisplayName
            avg1 == Average(org1.total, org1.memberCount)
            avg2 == Average(org2.total, org2.memberCount)
            insights == reply.result.data.insights
        IN /\ \A f \in ComparedFields :
                 /\ Emitted(insights, Insight(f, n1, n2)) <=> org1[f] > org2[f]
                 /\ Emitted(insights, Insight(f, n2, n1)) <=> org2[f] > org1[f]
           /\ Emitted(insights, Insight("average", n1, n2)) <=> AverageGreater(avg1, avg2)
           /\ Emitted(insights, Insight("average", n2, n1)) <=> AverageGreater(avg2, avg1)

\* ------------------------------------------------------------------------
\* C29.  For the data intent the result lists the filtered records in
\* input order when no sort field was extracted and ordered by the
\* extracted sort field otherwise (non-increasing unless the sort order is
\* asc); whenever a limit N was extracted, N = 0 included, the result has
\* exactly min(N, number of filtered records) entries; the message reports
\* the number of entries after truncation.
\* ------------------------------------------------------------------------

\* The reply is the result of executeDataQuery.
DataQueryReturned ==
    /\ Returned
    /\ ~Threw
    /\ reply.result.type = "data"
    /\ reply.result.filters # None
    /\ Has(reply.result.filters[1], "members")

C29_SortAndLimit ==
    DataQueryReturned =>
        LET rows == [i \in 1..Len(Filtered) |-> Row(Filtered[i])]
            items == reply.result.data.items
            sortBy == Parsed.filters.sortBy
            limit == Parsed.filters.limit
        IN /\ Len(items) <= Len(rows)
           /\ sortBy = None => items = SubSeq(rows, 1, Len(items))
           /\ sortBy # None =>
                 \A i, j \in 1..Len(items) :
                     i < j =>
                        IF Parsed.filters.sortOrder = Some("asc")
                        THEN items[i][sortBy[1]] <= items[j][sortBy[1]]
                        ELSE items[i][sortBy[1]] >= items[j][sortBy[1]]
           /\ limit = None => Len(items) = Len(rows)
           /\ limit # None => Len(items) = Min(limit[1], Len(rows))
           /\ reply.result.message.count = Len(items)

\* ------------------------------------------------------------------------
\* C30.  Every upstream request is attempted at most a fixed number of
\* times: under repeated rate-limit responses (403 with remaining 0) or
\* repeated transient failures, makeRequest and the GraphQL call stop
\* retrying after a fixed cap and surface a terminal error for that
\* request, so every fetch call terminates.
\* ------------------------------------------------------------------------

\* No request goes beyond the cap of attempts, and a request that has used
\* the cap is not running any more.
C30_AttemptsCapped ==
    /\ githubService.call.attempts <= maxRetries
    /\ githubService.call.attempts = maxRetries =>
          githubService.call.state # "running"

\* The GraphQL loop alone keeps the cap.
C30_GraphqlCapped ==
    githubService.call.name = "graphql" => C30_AttemptsCapped

====
